---- MODULE Spec2Model ----
(***************************************************************************)
(* Blockchain-Indexer: the job lifecycle service (modules/jobs), the block *)
(* persistence pipeline (modules/indexer) and the four repositories        *)
(* (modules/storage/repo) over one PostgreSQL store.                       *)
(*                                                                         *)
(* A call of the service is a sequence of SQL statements; every statement  *)
(* is one atomic step of the store, and the steps of concurrent calls      *)
(* interleave freely.                                                      *)
(***************************************************************************)
EXTENDS Integers, Sequences, FiniteSets, TLC

VARIABLES
    config,        \* the jobs of the deployment's configuration file
    jobs,          \* table jobs: a set of rows
    blocks,        \* table blocks: a set of rows
    transactions,  \* table transactions: a set of rows
    tx_outputs,    \* table tx_outputs: a set of rows
    tx_inputs,     \* table tx_inputs: a set of rows
    reqs,          \* the calls in flight, one record per slot
    calls,         \* calls started so far
    faults,        \* connection failures the store has had so far
    clock,         \* what NOW() returns
    probe,         \* the pure-function harness: input, result, history
    next_id,       \* RpcClient.id, the counter the client and its clones share
    auth           \* ApiAuth: the username and password the control API accepts

vars == <<config, jobs, blocks, transactions, tx_outputs, tx_inputs, reqs, calls, faults, clock, probe,
          next_id, auth>>

(***************************************************************************)
(* Bounds of the model.                                                    *)
(***************************************************************************)
MaxReq == 2
MaxCalls == 2
MaxFaults == 1
MaxClock == 1
MaxSteps == 4

Slots == 1..MaxReq

(***************************************************************************)
(* Values.                                                                 *)
(***************************************************************************)
NULL == "<null>"

Statuses == {"created", "running", "paused", "failed"}
\* `current` is any string the status column holds: one that is no status too
StatusStrings == Statuses \cup {"done"}
Actions == {"start", "stop", "pause", "resume", "retry"}
Modes == {"all_addresses", "address_list"}

\* ApiAuth { username, password }: two strings, each a sequence of characters
ApiAuth(username, password) == [username |-> username, password |-> password]
AdminAuth == ApiAuth(<< "a" >>, << "p" >>)

\* the Authorization header of a request as is_authorized reads it: is it
\* there, is its value visible ASCII (HeaderValue::to_str), the characters
\* up to and with the first blank, is the rest base64 text, and the bytes
\* that text encodes
Header(present, ascii, prefix, base64, bytes) ==
    [present |-> present, ascii |-> ascii, prefix |-> prefix, base64 |-> base64,
     bytes |-> bytes]
NoHeader == Header(FALSE, TRUE, "", TRUE, << >>)

\* a route of the router: its handler and the {job_id} of its path
Route(handler, job_id) == [handler |-> handler, job_id |-> job_id]
NoRoute == Route("", "")

\* an HTTP response: the status code and the JSON body
NoResponse == [status |-> 0, body |-> [none |-> TRUE]]

JobIds == {"full-sync", "watch"}
\* ids a caller may address: the configured ones and one nobody configured
AddressedIds == JobIds \cup {"missing"}

(***************************************************************************)
(* SQL statements as the compiler builds them.  A Rust string literal      *)
(* continued with a backslash at the end of a line drops the line break    *)
(* AND all the white space that starts the next line, so the last          *)
(* character before the backslash and the first non-blank character of     *)
(* the next line become neighbours.  A statement is kept here as its       *)
(* source lines with the class of those two characters: "word" (a letter,  *)
(* a digit, _), "punct" or "space".                                        *)
(***************************************************************************)
Line(text, head, tail) == [text |-> text, head |-> head, tail |-> tail]

\* jobs/mod.rs sync_from_config: every continued line ends in a space
SqlJobsUpsert ==
    << Line("INSERT INTO jobs (job_id, mode, status, progress_height, config_snapshot, updated_at) ", "word", "space"),
       Line("VALUES ($1, $2, 'created', 0, $3, NOW()) ", "word", "space"),
       Line("ON CONFLICT (job_id) DO UPDATE SET ", "word", "space"),
       Line("mode = EXCLUDED.mode, ", "word", "space"),
       Line("config_snapshot = EXCLUDED.config_snapshot, ", "word", "space"),
       Line("updated_at = NOW()", "word", "punct") >>

\* jobs/mod.rs list
SqlJobsList ==
    << Line("SELECT job_id, mode, status, progress_height, updated_at, last_error", "word", "word"),
       Line("FROM jobs", "word", "word"),
       Line("ORDER BY job_id", "word", "word") >>

\* jobs/mod.rs get
SqlJobsGet ==
    << Line("SELECT job_id, mode, status, progress_height, updated_at, last_error, config_snapshot", "word", "word"),
       Line("FROM jobs", "word", "word"),
       Line("WHERE job_id = $1", "word", "word") >>

\* jobs/mod.rs transition, the read
SqlJobsSelect ==
    << Line("SELECT job_id, mode, status, progress_height, updated_at, last_error", "word", "word"),
       Line("FROM jobs", "word", "word"),
       Line("WHERE job_id = $1", "word", "word") >>

\* jobs/mod.rs transition, the write
SqlJobsUpdate ==
    << Line("UPDATE jobs", "word", "word"),
       Line("SET status = $2, updated_at = NOW()", "word", "punct"),
       Line("WHERE job_id = $1", "word", "word") >>

\* storage/repo.rs BlocksRepo::upsert
SqlBlocksUpsert ==
    << Line("INSERT INTO blocks (height, hash, prev_hash, time, status, meta)", "word", "punct"),
       Line("VALUES ($1, $2, $3, $4, $5, $6)", "word", "punct"),
       Line("ON CONFLICT (hash) DO UPDATE SET", "word", "word"),
       Line("height = EXCLUDED.height,", "word", "punct"),
       Line("prev_hash = EXCLUDED.prev_hash,", "word", "punct"),
       Line("time = EXCLUDED.time,", "word", "punct"),
       Line("status = EXCLUDED.status,", "word", "punct"),
       Line("meta = EXCLUDED.meta", "word", "word") >>

\* storage/repo.rs TransactionsRepo::upsert
SqlTransactionsUpsert ==
    << Line("INSERT INTO transactions (txid, block_height, block_hash, time, status, decoded)", "word", "punct"),
       Line("VALUES ($1, $2, $3, $4, $5, $6)", "word", "punct"),
       Line("ON CONFLICT (txid) DO UPDATE SET", "word", "word"),
       Line("block_height = EXCLUDED.block_height,", "word", "punct"),
       Line("block_hash = EXCLUDED.block_hash,", "word", "punct"),
       Line("time = EXCLUDED.time,", "word", "punct"),
       Line("status = EXCLUDED.status,", "word", "punct"),
       Line("decoded = EXCLUDED.decoded", "word", "word") >>

\* storage/repo.rs TxOutputsRepo::insert
SqlTxOutputsInsert ==
    << Line("INSERT INTO tx_outputs (txid, vout, value_sats, script_type, address, script_hex)", "word", "punct"),
       Line("VALUES ($1, $2, $3, $4, $5, $6)", "word", "punct"),
       Line("ON CONFLICT (txid, vout) DO NOTHING", "word", "word") >>

\* storage/repo.rs TxInputsRepo::insert
SqlTxInputsInsert ==
    << Line("INSERT INTO tx_inputs (txid, vin, prev_txid, prev_vout, sequence)", "word", "punct"),
       Line("VALUES ($1, $2, $3, $4, $5)", "word", "punct"),
       Line("ON CONFLICT (txid, vin) DO NOTHING", "word", "word") >>

\* Two word characters brought together by a continuation make ONE token:
\* "last_error" + "FROM jobs" is sent as "last_errorFROM jobs".
Glued(stmt) ==
    \E i \in 1..(Len(stmt) - 1) : stmt[i].tail = "word" /\ stmt[i + 1].head = "word"

\* What the store's parser answers.  In each statement above a glued pair
\* swallows a keyword (FROM, WHERE, ORDER, SET) the grammar needs, and the
\* store answers with a syntax error; punctuation next to a word still
\* separates tokens (")VALUES", ")ON CONFLICT" parse).
Accepted(stmt) == ~Glued(stmt)

\* One statement sent through the pool: the connection fails (sqlx::Error::Io),
\* the store rejects the text (sqlx::Error::Database), or it is executed.
Execute(stmt, io) ==
    IF io THEN "Io"
    ELSE IF ~Accepted(stmt) THEN "Database"
    ELSE "ok"

(***************************************************************************)
(* Results of a call (Result<T, JobsError>, Result<(), sqlx::Error>).      *)
(***************************************************************************)
NoItem == [none |-> TRUE]

NoResult == [tag |-> "none", detail |-> "", item |-> NoItem, items |-> << >>]
OkUnit == [tag |-> "Ok", detail |-> "", item |-> NoItem, items |-> << >>]
OkItem(row) == [tag |-> "Ok", detail |-> "", item |-> row, items |-> << >>]
OkItems(rows) == [tag |-> "Ok", detail |-> "", item |-> NoItem, items |-> rows]
\* JobsError::NotFound
ErrNotFound == [tag |-> "NotFound", detail |-> "", item |-> NoItem, items |-> << >>]
\* JobsError::InvalidTransition(current)
ErrInvalidTransition(current) ==
    [tag |-> "InvalidTransition", detail |-> current, item |-> NoItem, items |-> << >>]
\* JobsError::Storage(sqlx::Error), sqlx::Error; cause is the sqlx variant
ErrStorage(cause) == [tag |-> "Storage", detail |-> cause, item |-> NoItem, items |-> << >>]

(***************************************************************************)
(* jobs/mod.rs transition_target: Ok(next) or Err(InvalidTransition).      *)
(***************************************************************************)
TargetOk(next) == [ok |-> TRUE, value |-> next]
TargetErr(current) == [ok |-> FALSE, value |-> current]

\* a slip the table invites: stop answered as a no-op on a job that is not
\* running (it is `created` already)
transition_target_lenient_stop(action, current) ==
    CASE action = "start" /\ current = "created" -> TargetOk("running")
      [] action = "stop" /\ current = "created" -> TargetOk("created")
      [] action = "stop" /\ current = "running" -> TargetOk("created")
      [] action = "stop" /\ current = "paused" -> TargetOk("created")
      [] action = "stop" /\ current = "failed" -> TargetOk("created")
      [] action = "pause" /\ current = "running" -> TargetOk("paused")
      [] action = "resume" /\ current = "paused" -> TargetOk("running")
      [] action = "retry" /\ current = "failed" -> TargetOk("running")
      [] OTHER -> TargetErr(current)

\* a slip: retry taken as resume on a paused job
transition_target_retry_paused(action, current) ==
    CASE action = "start" /\ current = "created" -> TargetOk("running")
      [] action = "stop" /\ current = "running" -> TargetOk("created")
      [] action = "stop" /\ current = "paused" -> TargetOk("created")
      [] action = "stop" /\ current = "failed" -> TargetOk("created")
      [] action = "pause" /\ current = "running" -> TargetOk("paused")
      [] action = "resume" /\ current = "paused" -> TargetOk("running")
      [] action = "retry" /\ current = "failed" -> TargetOk("running")
      [] action = "retry" /\ current = "paused" -> TargetOk("running")
      [] OTHER -> TargetErr(current)

transition_target(action, current) ==
    CASE action = "start" /\ current = "created" -> TargetOk("running")
      [] action = "stop" /\ current = "running" -> TargetOk("created")
      [] action = "stop" /\ current = "paused" -> TargetOk("created")
      [] action = "stop" /\ current = "failed" -> TargetOk("created")
      [] action = "pause" /\ current = "running" -> TargetOk("paused")
      [] action = "resume" /\ current = "paused" -> TargetOk("running")
      [] action = "retry" /\ current = "failed" -> TargetOk("running")
      [] OTHER -> TargetErr(current)

(***************************************************************************)
(* The jobs table and the statements of JobsService on it.                 *)
(***************************************************************************)
\* serde_json::to_value(job): the JobConfig's four fields as a document
Snapshot(job) ==
    [job_id |-> job.job_id, mode |-> job.mode, enabled |-> job.enabled,
     addresses |-> job.addresses]

\* a slip: a configured job inserted as already running
NewJobRow_running(job_id, mode, snapshot, now) ==
    [job_id |-> job_id, mode |-> mode, status |-> "running", progress_height |-> 0,
     config_snapshot |-> snapshot, updated_at |-> now, last_error |-> NULL]

\* a slip: last_error inserted as an empty text where the statement leaves
\* the column to its default
NewJobRow_empty_error(job_id, mode, snapshot, now) ==
    [job_id |-> job_id, mode |-> mode, status |-> "created", progress_height |-> 0,
     config_snapshot |-> snapshot, updated_at |-> now, last_error |-> ""]

\* INSERT INTO jobs ... VALUES ($1, $2, 'created', 0, $3, NOW())
NewJobRow(job_id, mode, snapshot, now) ==
    [job_id |-> job_id, mode |-> mode, status |-> "created", progress_height |-> 0,
     config_snapshot |-> snapshot, updated_at |-> now, last_error |-> NULL]

\* a slip: the conflict branch written as SET status = EXCLUDED.status,
\* progress_height = EXCLUDED.progress_height too
ConflictJobRow_resets(row, mode, snapshot, now) ==
    [row EXCEPT !.mode = mode, !.config_snapshot = snapshot, !.updated_at = now,
                !.status = "created", !.progress_height = 0]

\* ... ON CONFLICT (job_id) DO UPDATE SET mode, config_snapshot, updated_at
ConflictJobRow(row, mode, snapshot, now) ==
    [row EXCEPT !.mode = mode, !.config_snapshot = snapshot, !.updated_at = now]

\* a slip: the upsert written as delete-all-then-insert
JobsUpsert_replaces_table(table, job_id, mode, snapshot, now) ==
    {NewJobRow(job_id, mode, snapshot, now)}

\* a slip: a plain INSERT, without the ON CONFLICT clause, into a table
\* without the unique index
JobsUpsert_plain_insert(table, job_id, mode, snapshot, now) ==
    table \cup {NewJobRow(job_id, mode, snapshot, now)}

JobsUpsert(table, job_id, mode, snapshot, now) ==
    IF \E row \in table : row.job_id = job_id
    THEN {IF row.job_id = job_id THEN ConflictJobRow(row, mode, snapshot, now) ELSE row :
             row \in table}
    ELSE table \cup {NewJobRow(job_id, mode, snapshot, now)}

\* UPDATE jobs SET status = $2, updated_at = NOW() WHERE job_id = $1
JobsUpdateStatus(table, job_id, next, now) ==
    {IF row.job_id = job_id THEN [row EXCEPT !.status = next, !.updated_at = now] ELSE row :
        row \in table}

\* SELECT ... FROM jobs WHERE job_id = $1, fetch_optional
FetchJob(table, job_id) ==
    IF \E row \in table : row.job_id = job_id
    THEN CHOOSE row \in table : row.job_id = job_id
    ELSE NoItem

\* byte order of the ids, for ORDER BY job_id
IdOrder == << "full-sync", "missing", "watch" >>

RECURSIVE SetToSeq(_)
SetToSeq(S) ==
    IF S = {} THEN << >>
    ELSE LET x == CHOOSE y \in S : TRUE IN << x >> \o SetToSeq(S \ {x})

RECURSIVE RowsInOrder(_, _)
RowsInOrder(table, k) ==
    IF k > Len(IdOrder) THEN << >>
    ELSE SetToSeq({row \in table : row.job_id = IdOrder[k]}) \o RowsInOrder(table, k + 1)

\* list: JobRow -> JobSummary (tip_height: None)
Summary(row) ==
    [job_id |-> row.job_id, mode |-> row.mode, status |-> row.status,
     progress_height |-> row.progress_height, tip_height |-> NULL,
     updated_at |-> row.updated_at, last_error |-> row.last_error]

\* SELECT ... FROM jobs ORDER BY job_id, fetch_all, mapped to summaries
ListJobs(table) ==
    LET rows == RowsInOrder(table, 1)
    IN [i \in 1..Len(rows) |-> Summary(rows[i])]

(***************************************************************************)
(* Configured jobs (config/mod.rs JobConfig, as AppConfig::from_raw lets   *)
(* them through: a supported mode, addresses for address_list, no job_id   *)
(* twice).                                                                 *)
(***************************************************************************)
JobConfigs ==
    {[job_id |-> id, mode |-> m, enabled |-> TRUE,
      addresses |-> IF m = "address_list" THEN << "addr1" >> ELSE << >>] :
        id \in JobIds, m \in Modes}

JobConfigOf(id, m) == CHOOSE j \in JobConfigs : j.job_id = id /\ j.mode = m

\* the job lists of a deployment: none, one job (in either mode), two jobs
\* (in either order)
Configs ==
    { << >>,
      << JobConfigOf("full-sync", "all_addresses") >>,
      << JobConfigOf("full-sync", "address_list") >>,
      << JobConfigOf("full-sync", "all_addresses"), JobConfigOf("watch", "all_addresses") >>,
      << JobConfigOf("watch", "address_list"), JobConfigOf("full-sync", "all_addresses") >> }

(***************************************************************************)
(* Numbers wider than the checker's integers.  A natural number is a       *)
(* sequence of limbs in base 10^4, least significant first, without        *)
(* leading zero limbs; zero is the empty sequence.  An f64 is a sign and   *)
(* m / 2^k with m below 2^53 (or equal to it after a rounding carry); an   *)
(* i64 is a sign and a magnitude.  The values that occur are normal        *)
(* numbers, far from the subnormal and the infinite ones.                  *)
(***************************************************************************)
RECURSIVE Trim(_)
Trim(x) ==
    IF x = << >> THEN x
    ELSE IF x[Len(x)] = 0 THEN Trim(SubSeq(x, 1, Len(x) - 1))
    ELSE x

RECURSIVE MulSmall(_, _, _)
MulSmall(x, f, carry) ==
    IF x = << >> THEN (IF carry = 0 THEN << >> ELSE << carry >>)
    ELSE LET p == Head(x) * f + carry
         IN << p % 10000 >> \o MulSmall(Tail(x), f, p \div 10000)

\* limbs 1..i of x divided by d, rem being what the limbs above i left over
RECURSIVE DivSmall(_, _, _, _)
DivSmall(x, i, d, rem) ==
    IF i = 0 THEN << >>
    ELSE LET cur == rem * 10000 + x[i]
         IN DivSmall(x, i - 1, d, cur % d) \o << cur \div d >>

Double(x) == MulSmall(x, 2, 0)
Halve(x) == Trim(DivSmall(x, Len(x), 2, 0))
Odd(x) == x /= << >> /\ Head(x) % 2 = 1

RECURSIVE AddOne(_)
AddOne(x) ==
    IF x = << >> THEN << 1 >>
    ELSE IF Head(x) = 9999 THEN << 0 >> \o AddOne(Tail(x))
    ELSE << Head(x) + 1 >> \o Tail(x)

RECURSIVE LessFrom(_, _, _)
LessFrom(a, b, i) ==
    IF i = 0 THEN FALSE
    ELSE IF a[i] /= b[i] THEN a[i] < b[i]
    ELSE LessFrom(a, b, i - 1)

Less(a, b) == Len(a) < Len(b) \/ (Len(a) = Len(b) /\ LessFrom(a, b, Len(a)))

\* 2^52 = 4503599627370496, 2^53 = 9007199254740992,
\* 2^63 = 9223372036854775808
TwoTo52 == << 496, 2737, 5996, 4503 >>
TwoTo53 == << 992, 5474, 1992, 9007 >>
TwoTo63 == << 5808, 5477, 368, 3372, 922 >>

\* x * 2^n and the integer part of x / 2^n, thirteen bits at a time
\* (2^13 = 8192) while that many are left
RECURSIVE ShiftLeft(_, _)
ShiftLeft(x, n) ==
    IF n = 0 \/ x = << >> THEN x
    ELSE IF n >= 13 THEN ShiftLeft(MulSmall(x, 8192, 0), n - 13)
    ELSE ShiftLeft(Double(x), n - 1)

RECURSIVE ShiftRight(_, _)
ShiftRight(x, n) ==
    IF n = 0 \/ x = << >> THEN x
    ELSE IF n >= 13 THEN ShiftRight(Trim(DivSmall(x, Len(x), 8192, 0)), n - 13)
    ELSE ShiftRight(Halve(x), n - 1)

\* the least k with x * 2^k >= bound, counted up from k (x is not zero)
RECURSIVE ScaleUp(_, _, _)
ScaleUp(x, bound, k) ==
    IF ~Less(x, bound) THEN k
    ELSE IF Less(MulSmall(x, 8192, 0), bound) THEN ScaleUp(MulSmall(x, 8192, 0), bound, k + 13)
    ELSE ScaleUp(Double(x), bound, k + 1)

\* the least s with x / 2^s < bound, counted up from s
RECURSIVE ScaleDown(_, _, _)
ScaleDown(x, bound, s) ==
    IF Less(x, bound) THEN s
    ELSE IF ~Less(x, MulSmall(bound, 8192, 0))
         THEN ScaleDown(Trim(DivSmall(x, Len(x), 8192, 0)), bound, s + 13)
    ELSE ScaleDown(Halve(x), bound, s + 1)

\* x / 2^s rounded to the nearest integer, a tie to the even one
RoundEven(x, s) ==
    IF s = 0 THEN x
    ELSE LET q == ShiftRight(x, s)
             guard == Odd(ShiftRight(x, s - 1))
             sticky == ShiftLeft(ShiftRight(x, s - 1), s - 1) /= x
         IN IF guard /\ (sticky \/ Odd(q)) THEN AddOne(q) ELSE q

\* x / 2^s rounded to the nearest integer, a tie away from zero
RoundAway(x, s) ==
    IF s = 0 THEN x
    ELSE IF Odd(ShiftRight(x, s - 1)) THEN AddOne(ShiftRight(x, s))
    ELSE ShiftRight(x, s)

\* a decimal number as the JSON text or a Rust literal spells it: a sign,
\* the whole coins and nine decimal places
Decimal(neg, coins, nano) == [neg |-> neg, coins |-> coins, nano |-> nano]

\* a count of 10^-9 coin as a decimal number
Nano(v) ==
    LET mag == IF v < 0 THEN -v ELSE v
    IN Decimal(v < 0, mag \div 1000000000, mag % 1000000000)

\* the decimal number in units of 10^-12 coin (three limbs below the point)
Digits(d) ==
    Trim(<< (d.nano % 10) * 1000, (d.nano \div 10) % 10000, d.nano \div 100000,
            d.coins % 10000, d.coins \div 10000 >>)

\* the f64 nearest to a decimal number, a tie to the even one: what a
\* literal in the source and a number in a JSON body decode to
f64(d) ==
    IF Digits(d) = << >> THEN [neg |-> d.neg, m |-> << >>, k |-> 0]
    ELSE LET k == ScaleUp(Digits(d), << 0, 0, 0 >> \o TwoTo52, 0)
             scaled == ShiftLeft(Digits(d), k)
             q == SubSeq(scaled, 4, Len(scaled))
             r == Trim(SubSeq(scaled, 1, 3))
             half == << 0, 0, 5000 >>
             up == Less(half, r) \/ (r = half /\ Odd(q))
         IN [neg |-> d.neg, m |-> IF up THEN AddOne(q) ELSE q, k |-> k]

\* value * 100_000_000.0: the exact product, rounded to an f64
Times100000000(value) ==
    IF value.m = << >> THEN value
    ELSE LET exact == << 0, 0 >> \o value.m
             s == ScaleDown(exact, TwoTo53, 0)
         IN [neg |-> value.neg, m |-> RoundEven(exact, s), k |-> value.k - s]

\* f64::round: to the nearest integer, a tie away from zero
round(value) ==
    IF value.k >= 0 THEN RoundAway(value.m, value.k)
    ELSE ShiftLeft(value.m, -value.k)

RECURSIVE SubOne(_)
SubOne(x) ==
    IF Head(x) = 0 THEN << 9999 >> \o SubOne(Tail(x))
    ELSE Trim(<< Head(x) - 1 >> \o Tail(x))

\* `as i64` on the integer mag with the sign neg: the cast saturates
as_i64(neg, mag) ==
    LET limit == IF neg THEN TwoTo63 ELSE SubOne(TwoTo63)
        kept == IF Less(limit, mag) THEN limit ELSE mag
    IN [neg |-> neg /\ kept /= << >>, mag |-> kept]

(***************************************************************************)
(* Decoded blocks (indexer/mod.rs RpcBlock, RpcTransaction, RpcVin,        *)
(* RpcVout, RpcScriptPubKey).  Option<String> is NULL or the string,       *)
(* Option<i32> is None or Some(n), Option<Vec<String>> is None or          *)
(* Some(list).  An output's value is written here as a count of 10^-9      *)
(* coin, one decimal place below the minor unit, and held as the f64 the   *)
(* JSON number decodes to.                                                 *)
(***************************************************************************)
None == [some |-> FALSE, v |-> 0]
Some(x) == [some |-> TRUE, v |-> x]
NoList == [some |-> FALSE, v |-> << >>]

ScriptPubKey(type, hex, address, addresses) ==
    [script_type |-> type, hex |-> hex, address |-> address, addresses |-> addresses]
Vout(n, value, spk) == [n |-> n, value |-> f64(Nano(value)), script_pub_key |-> spk]
Vin(txid, vout, sequence) == [txid |-> txid, vout |-> vout, sequence |-> sequence]
Tx(txid, vin, vout) == [txid |-> txid, vin |-> vin, vout |-> vout]

BlockA ==
    [hash |-> "ha", height |-> 1, prev_hash |-> NULL, time |-> 100,
     tx |-> << Tx("t1", << Vin(NULL, None, 7) >>,
                  << Vout(0, 1000000000, ScriptPubKey("pubkeyhash", "00", "addr1", NoList)) >>),
               Tx("t2", << Vin("t1", Some(0), 1), Vin("t1", None, 2), Vin(NULL, Some(1), 3) >>,
                  << Vout(0, 15, ScriptPubKey("multisig", "01", NULL, Some(<< "addr2", "addr3" >>))),
                     Vout(1, 10, ScriptPubKey("nulldata", "02", NULL, NoList)) >>) >>]

\* a later block that carries t2 again, with other content
BlockB ==
    [hash |-> "hb", height |-> 2, prev_hash |-> "ha", time |-> 200,
     tx |-> << Tx("t2", << Vin("t1", Some(0), 9) >>,
                  << Vout(0, 25, ScriptPubKey("pubkeyhash", "03", "addr4", Some(<< "addr5" >>))),
                     Vout(1, 4, ScriptPubKey("nonstandard", "04", NULL, Some(<< >>))) >>) >>]

\* the hash of BlockA at another height, without transactions
BlockC == [hash |-> "ha", height |-> 3, prev_hash |-> "hb", time |-> 300, tx |-> << >>]

Blocks == {BlockA, BlockB, BlockC}

(***************************************************************************)
(* indexer/mod.rs btc_to_sats: (value * 100_000_000.0).round() as i64;     *)
(* the product is an f64 again, and f64::round rounds it half away from    *)
(* zero.                                                                   *)
(***************************************************************************)
\* a slip: the cast without the round, which drops the fraction
btc_to_sats_truncates(value) ==
    LET product == Times100000000(value)
    IN as_i64(value.neg, IF product.k >= 0 THEN ShiftRight(product.m, product.k)
                         ELSE ShiftLeft(product.m, -product.k))

btc_to_sats(value) == as_i64(value.neg, round(Times100000000(value)))

\* a slip: the legacy list consulted first, the singular field as fallback
ResolveAddress_list_first(spk) ==
    IF spk.addresses.some /\ Len(spk.addresses.v) > 0 THEN spk.addresses.v[1]
    ELSE spk.address

\* address.clone().or_else(|| addresses.as_ref().and_then(|list| list.first().cloned()))
ResolveAddress(spk) ==
    IF spk.address /= NULL THEN spk.address
    ELSE IF spk.addresses.some /\ Len(spk.addresses.v) > 0 THEN spk.addresses.v[1]
    ELSE NULL

(***************************************************************************)
(* The records persist_block builds, in the order it writes them.          *)
(***************************************************************************)
BlockRecordOf(block) ==
    [height |-> block.height, hash |-> block.hash,
     \* prev_hash.clone().unwrap_or_default()
     prev_hash |-> IF block.prev_hash = NULL THEN "" ELSE block.prev_hash,
     time |-> block.time, status |-> "canonical", meta |-> "{}"]

TransactionRecordOf(block, tx) ==
    [txid |-> tx.txid, block_height |-> Some(block.height), block_hash |-> block.hash,
     time |-> block.time, status |-> "confirmed", decoded |-> tx]

TxInputRecordOf(tx, idx) ==
    [txid |-> tx.txid, vin |-> idx, prev_txid |-> tx.vin[idx + 1].txid,
     prev_vout |-> tx.vin[idx + 1].vout.v, sequence |-> tx.vin[idx + 1].sequence]

TxOutputRecordOf(tx, j) ==
    [txid |-> tx.txid, vout |-> tx.vout[j].n, value_sats |-> btc_to_sats(tx.vout[j].value),
     script_type |-> tx.vout[j].script_pub_key.script_type,
     address |-> ResolveAddress(tx.vout[j].script_pub_key),
     script_hex |-> tx.vout[j].script_pub_key.hex]

Write(kind, rec) == [kind |-> kind, rec |-> rec]

\* if let (Some(prev_txid), Some(prev_vout)) = (vin.txid.as_ref(), vin.vout)
HasPrevOut(vin) == vin.txid /= NULL /\ vin.vout.some

\* for (idx, vin) in tx.vin.iter().enumerate(): idx counts from 0
RECURSIVE InputWrites(_, _)
InputWrites(tx, idx) ==
    IF idx >= Len(tx.vin) THEN << >>
    ELSE (IF HasPrevOut(tx.vin[idx + 1])
          THEN << Write("input", TxInputRecordOf(tx, idx)) >>
          ELSE << >>) \o InputWrites(tx, idx + 1)

OutputWrites(tx) == [j \in 1..Len(tx.vout) |-> Write("output", TxOutputRecordOf(tx, j))]

\* a slip: the transaction row upserted after the rows of its inputs and outputs
RECURSIVE TxWrites_row_last(_, _)
TxWrites_row_last(block, t) ==
    IF t > Len(block.tx) THEN << >>
    ELSE InputWrites(block.tx[t], 0) \o OutputWrites(block.tx[t])
         \o << Write("tx", TransactionRecordOf(block, block.tx[t])) >>
         \o TxWrites_row_last(block, t + 1)

RECURSIVE TxWrites(_, _)
TxWrites(block, t) ==
    IF t > Len(block.tx) THEN << >>
    ELSE << Write("tx", TransactionRecordOf(block, block.tx[t])) >>
         \o InputWrites(block.tx[t], 0) \o OutputWrites(block.tx[t])
         \o TxWrites(block, t + 1)

\* every repository call of persist_block(block), in program order
WritesOf(block) == << Write("block", BlockRecordOf(block)) >> \o TxWrites(block, 1)

\* the same, worked out once for each block there is
WritesOfBlocks == [block \in Blocks |-> WritesOf(block)]
Writes(block) == WritesOfBlocks[block]

(***************************************************************************)
(* storage/repo.rs: the four statements on their tables.                   *)
(***************************************************************************)
BlocksUpsert(table, rec) ==
    IF \E row \in table : row.hash = rec.hash
    THEN {IF row.hash = rec.hash
          THEN [row EXCEPT !.height = rec.height, !.prev_hash = rec.prev_hash,
                           !.time = rec.time, !.status = rec.status, !.meta = rec.meta]
          ELSE row : row \in table}
    ELSE table \cup {rec}

\* a slip: the conflict branch written as DO NOTHING, as in the inserts
TransactionsUpsert_do_nothing(table, rec) ==
    IF \E row \in table : row.txid = rec.txid
    THEN table
    ELSE table \cup {rec}

TransactionsUpsert(table, rec) ==
    IF \E row \in table : row.txid = rec.txid
    THEN {IF row.txid = rec.txid
          THEN [row EXCEPT !.block_height = rec.block_height, !.block_hash = rec.block_hash,
                           !.time = rec.time, !.status = rec.status, !.decoded = rec.decoded]
          ELSE row : row \in table}
    ELSE table \cup {rec}

\* a slip: the conflict branch written as DO UPDATE SET ..., as in the upserts
TxOutputsInsert_overwrites(table, rec) ==
    {row \in table : ~(row.txid = rec.txid /\ row.vout = rec.vout)} \cup {rec}

\* ON CONFLICT (txid, vout) DO NOTHING
TxOutputsInsert(table, rec) ==
    IF \E row \in table : row.txid = rec.txid /\ row.vout = rec.vout
    THEN table
    ELSE table \cup {rec}

\* a slip: a plain INSERT, without ON CONFLICT, into a table without the key
TxInputsInsert_plain_insert(table, rec) == table \cup {rec}

\* ON CONFLICT (txid, vin) DO NOTHING
TxInputsInsert(table, rec) ==
    IF \E row \in table : row.txid = rec.txid /\ row.vin = rec.vin
    THEN table
    ELSE table \cup {rec}

StatementOf(kind) ==
    CASE kind = "block" -> SqlBlocksUpsert
      [] kind = "tx" -> SqlTransactionsUpsert
      [] kind = "input" -> SqlTxInputsInsert
      [] kind = "output" -> SqlTxOutputsInsert

(***************************************************************************)
(* Calls in flight.  A slot holds one call: its arguments, the statement   *)
(* it is about to send (pc, k), what it has read (next) and, once it has   *)
(* returned (pc = "done"), its result, until the caller takes it.          *)
(***************************************************************************)
Idle ==
    [op |-> "idle", action |-> "", job_id |-> "", cfg |-> << >>, block |-> NoItem,
     rec |-> NoItem, height |-> 0, client |-> "", id |-> 0, sends |-> 0,
     route |-> NoRoute, header |-> NoHeader, response |-> NoResponse,
     pc |-> "idle", k |-> 0, next |-> "", result |-> NoResult]

NoProbe == [fn |-> "none", before |-> "", action |-> "", result |-> TargetErr(""),
            current |-> "", steps |-> 0]

\* the connection may fail under a statement, MaxFaults times in a behaviour
IoChoices == IF faults < MaxFaults THEN {FALSE, TRUE} ELSE {FALSE}

Finish(r, result) == [reqs EXCEPT ![r].pc = "done", ![r].result = result]

Begin(r, call) ==
    /\ calls < MaxCalls
    /\ reqs' = [reqs EXCEPT ![r] = call]
    /\ calls' = calls + 1
    /\ UNCHANGED <<config, jobs, blocks, transactions, tx_outputs, tx_inputs, faults, clock, probe, next_id, auth>>

\* sync_from_config run to its end on `table`, from the k-th configured job on
RECURSIVE SyncAll(_, _, _, _)
SyncAll(table, cfg, k, now) ==
    IF k > Len(cfg) THEN table
    ELSE SyncAll(JobsUpsert(table, cfg[k].job_id, cfg[k].mode, Snapshot(cfg[k]), now),
                 cfg, k + 1, now)

\* App::bootstrap on a fresh database: migrations, then sync_from_config of
\* the configured jobs; only then is the API served
Bootstrap(cfg) == SyncAll({}, cfg, 1, 0)

Init ==
    /\ config \in Configs
    /\ jobs = Bootstrap(config)
    /\ blocks = {}
    /\ transactions = {}
    /\ tx_outputs = {}
    /\ tx_inputs = {}
    /\ reqs = [r \in Slots |-> Idle]
    /\ calls = 0
    /\ faults = 0
    /\ clock = 0
    /\ next_id = 1
    /\ auth = AdminAuth
    /\ probe = NoProbe

(***************************************************************************)
(* JobsService::list                                                       *)
(***************************************************************************)
CallList(r) ==
    /\ reqs[r].op = "idle"
    /\ Begin(r, [Idle EXCEPT !.op = "list", !.pc = "select"])

ListStep(r) ==
    /\ reqs[r].op = "list" /\ reqs[r].pc = "select"
    /\ \E io \in IoChoices :
         LET out == Execute(SqlJobsList, io)
         IN /\ reqs' = Finish(r, IF out = "ok" THEN OkItems(ListJobs(jobs)) ELSE ErrStorage(out))
            /\ faults' = IF io THEN faults + 1 ELSE faults
    /\ UNCHANGED <<config, jobs, blocks, transactions, tx_outputs, tx_inputs, calls, clock, probe, next_id, auth>>

(***************************************************************************)
(* JobsService::get                                                        *)
(***************************************************************************)
\* the statement of get, run for job_id: Err(Storage), Err(NotFound) or the row
GetResult(job_id, io) ==
    LET out == Execute(SqlJobsGet, io)
        row == FetchJob(jobs, job_id)
    IN IF out /= "ok" THEN ErrStorage(out)
       ELSE IF row = NoItem THEN ErrNotFound
       ELSE OkItem(row)

CallGet(r, job_id) ==
    /\ reqs[r].op = "idle"
    /\ Begin(r, [Idle EXCEPT !.op = "get", !.job_id = job_id, !.pc = "select"])

GetStep(r) ==
    /\ reqs[r].op = "get" /\ reqs[r].pc = "select"
    /\ \E io \in IoChoices :
         /\ reqs' = Finish(r, GetResult(reqs[r].job_id, io))
         /\ faults' = IF io THEN faults + 1 ELSE faults
    /\ UNCHANGED <<config, jobs, blocks, transactions, tx_outputs, tx_inputs, calls, clock, probe, next_id, auth>>

(***************************************************************************)
(* JobsService::start, stop, pause, resume, retry -> transition: the read, *)
(* the check, the write and the final get are three statements.            *)
(***************************************************************************)
CallTransition(r, action, job_id) ==
    /\ reqs[r].op = "idle"
    /\ Begin(r, [Idle EXCEPT !.op = "transition", !.action = action, !.job_id = job_id,
                             !.pc = "select"])

\* the read and transition_target on what it returned
TransitionSelect(r, io) ==
    LET out == Execute(SqlJobsSelect, io)
        row == FetchJob(jobs, reqs[r].job_id)
        target == transition_target(reqs[r].action, row.status)
    IN /\ reqs' = IF out /= "ok" THEN Finish(r, ErrStorage(out))
                  ELSE IF row = NoItem THEN Finish(r, ErrNotFound)
                  ELSE IF ~target.ok THEN Finish(r, ErrInvalidTransition(target.value))
                  ELSE [reqs EXCEPT ![r].pc = "update", ![r].next = target.value]
       /\ jobs' = jobs

\* the write of the status computed from the earlier read
TransitionUpdate(r, io) ==
    LET out == Execute(SqlJobsUpdate, io)
    IN /\ reqs' = IF out /= "ok" THEN Finish(r, ErrStorage(out))
                  ELSE [reqs EXCEPT ![r].pc = "get"]
       /\ jobs' = IF out /= "ok" THEN jobs
                  ELSE JobsUpdateStatus(jobs, reqs[r].job_id, reqs[r].next, clock)

\* self.get(job_id)
TransitionGet(r, io) ==
    /\ reqs' = Finish(r, GetResult(reqs[r].job_id, io))
    /\ jobs' = jobs

TransitionStep(r) ==
    /\ reqs[r].op = "transition" /\ reqs[r].pc \in {"select", "update", "get"}
    /\ \E io \in IoChoices :
         /\ CASE reqs[r].pc = "select" -> TransitionSelect(r, io)
              [] reqs[r].pc = "update" -> TransitionUpdate(r, io)
              [] reqs[r].pc = "get" -> TransitionGet(r, io)
         /\ faults' = IF io THEN faults + 1 ELSE faults
    /\ UNCHANGED <<config, blocks, transactions, tx_outputs, tx_inputs, calls, clock, probe, next_id, auth>>

(***************************************************************************)
(* JobsService::sync_from_config: one upsert per configured job, in order; *)
(* the first failure returns.                                              *)
(***************************************************************************)
CallSync(r, cfg) ==
    /\ reqs[r].op = "idle"
    /\ Begin(r, [Idle EXCEPT !.op = "sync", !.cfg = cfg, !.pc = "upsert", !.k = 1])

SyncStep(r) ==
    /\ reqs[r].op = "sync" /\ reqs[r].pc = "upsert"
    /\ \E io \in IoChoices :
         LET cfg == reqs[r].cfg
             k == reqs[r].k
             out == IF Len(cfg) = 0 THEN "none" ELSE Execute(SqlJobsUpsert, io)
         IN /\ Len(cfg) = 0 => ~io
            /\ reqs' = IF out = "none" THEN Finish(r, OkUnit)
                       ELSE IF out /= "ok" THEN Finish(r, ErrStorage(out))
                       ELSE IF k = Len(cfg) THEN Finish(r, OkUnit)
                       ELSE [reqs EXCEPT ![r].k = k + 1]
            /\ jobs' = IF out = "ok"
                       THEN JobsUpsert(jobs, cfg[k].job_id, cfg[k].mode, Snapshot(cfg[k]), clock)
                       ELSE jobs
            /\ faults' = IF io THEN faults + 1 ELSE faults
    /\ UNCHANGED <<config, blocks, transactions, tx_outputs, tx_inputs, calls, clock, probe, next_id, auth>>

(***************************************************************************)
(* IndexerPipeline::persist_block: the writes of Writes(block) one after   *)
(* the other, each `.await?`: the first failure returns, nothing is undone.*)
(***************************************************************************)
CallPersist(r, block) ==
    /\ reqs[r].op = "idle"
    /\ Begin(r, [Idle EXCEPT !.op = "persist", !.block = block, !.pc = "write", !.k = 1])

\* a slip: the result of a repository call dropped (`let _ =` for `?`), so a
\* failed write is passed over and the loop goes on
PersistStep_ignores_errors(r) ==
    /\ reqs[r].op \in {"persist", "index"} /\ reqs[r].pc = "write"
    /\ \E io \in IoChoices :
         LET ws == Writes(reqs[r].block)
             w == ws[reqs[r].k]
             done == Execute(StatementOf(w.kind), io) = "ok"
         IN /\ reqs' = IF reqs[r].k = Len(ws) THEN Finish(r, OkUnit)
                       ELSE [reqs EXCEPT ![r].k = reqs[r].k + 1]
            /\ blocks' = IF done /\ w.kind = "block" THEN BlocksUpsert(blocks, w.rec) ELSE blocks
            /\ transactions' = IF done /\ w.kind = "tx"
                               THEN TransactionsUpsert(transactions, w.rec) ELSE transactions
            /\ tx_inputs' = IF done /\ w.kind = "input"
                            THEN TxInputsInsert(tx_inputs, w.rec) ELSE tx_inputs
            /\ tx_outputs' = IF done /\ w.kind = "output"
                             THEN TxOutputsInsert(tx_outputs, w.rec) ELSE tx_outputs
            /\ faults' = IF io THEN faults + 1 ELSE faults
    /\ UNCHANGED <<config, jobs, calls, clock, probe, next_id, auth>>

\* a slip: a failed write sent again until it goes through
PersistStep_retries(r) ==
    /\ reqs[r].op \in {"persist", "index"} /\ reqs[r].pc = "write"
    /\ \E io \in IoChoices :
         LET ws == Writes(reqs[r].block)
             w == ws[reqs[r].k]
             done == Execute(StatementOf(w.kind), io) = "ok"
         IN /\ reqs' = IF ~done THEN reqs
                       ELSE IF reqs[r].k = Len(ws) THEN Finish(r, OkUnit)
                       ELSE [reqs EXCEPT ![r].k = reqs[r].k + 1]
            /\ blocks' = IF done /\ w.kind = "block" THEN BlocksUpsert(blocks, w.rec) ELSE blocks
            /\ transactions' = IF done /\ w.kind = "tx"
                               THEN TransactionsUpsert(transactions, w.rec) ELSE transactions
            /\ tx_inputs' = IF done /\ w.kind = "input"
                            THEN TxInputsInsert(tx_inputs, w.rec) ELSE tx_inputs
            /\ tx_outputs' = IF done /\ w.kind = "output"
                             THEN TxOutputsInsert(tx_outputs, w.rec) ELSE tx_outputs
            /\ faults' = IF io THEN faults + 1 ELSE faults
    /\ UNCHANGED <<config, jobs, calls, clock, probe, next_id, auth>>

PersistStep(r) ==
    \* index_height runs the same pipeline once it holds the block
    /\ reqs[r].op \in {"persist", "index"} /\ reqs[r].pc = "write"
    /\ \E io \in IoChoices :
         LET ws == Writes(reqs[r].block)
             w == ws[reqs[r].k]
             out == Execute(StatementOf(w.kind), io)
             done == out = "ok"
         IN /\ reqs' = IF ~done THEN Finish(r, ErrStorage(out))
                       ELSE IF reqs[r].k = Len(ws) THEN Finish(r, OkUnit)
                       ELSE [reqs EXCEPT ![r].k = reqs[r].k + 1]
            /\ blocks' = IF done /\ w.kind = "block" THEN BlocksUpsert(blocks, w.rec) ELSE blocks
            /\ transactions' = IF done /\ w.kind = "tx"
                               THEN TransactionsUpsert(transactions, w.rec) ELSE transactions
            /\ tx_inputs' = IF done /\ w.kind = "input"
                            THEN TxInputsInsert(tx_inputs, w.rec) ELSE tx_inputs
            /\ tx_outputs' = IF done /\ w.kind = "output"
                             THEN TxOutputsInsert(tx_outputs, w.rec) ELSE tx_outputs
            /\ faults' = IF io THEN faults + 1 ELSE faults
    /\ UNCHANGED <<config, jobs, calls, clock, probe, next_id, auth>>

(***************************************************************************)
(* The caller takes the result; time passes.                               *)
(***************************************************************************)
Return(r) ==
    /\ reqs[r].pc = "done"
    /\ reqs' = [reqs EXCEPT ![r] = Idle]
    /\ UNCHANGED <<config, jobs, blocks, transactions, tx_outputs, tx_inputs, calls, faults, clock, probe, next_id, auth>>

Tick ==
    /\ clock < MaxClock
    /\ clock' = clock + 1
    /\ UNCHANGED <<config, jobs, blocks, transactions, tx_outputs, tx_inputs, reqs, calls, faults, probe, next_id, auth>>

Next ==
    \/ \E r \in Slots : CallList(r)
    \/ \E r \in Slots : ListStep(r)
    \/ \E r \in Slots, id \in AddressedIds : CallGet(r, id)
    \/ \E r \in Slots : GetStep(r)
    \/ \E r \in Slots, a \in Actions, id \in AddressedIds : CallTransition(r, a, id)
    \/ \E r \in Slots : TransitionStep(r)
    \/ \E r \in Slots, cfg \in Configs : CallSync(r, cfg)
    \/ \E r \in Slots : SyncStep(r)
    \/ \E r \in Slots, b \in Blocks : CallPersist(r, b)
    \/ \E r \in Slots : PersistStep(r)
    \/ \E r \in Slots : Return(r)
    \/ Tick

Spec == Init /\ [][Next]_vars

(***************************************************************************)
(* transition_target on its own: from any stored status string, any        *)
(* sequence of actions; a successful action moves the status on, a         *)
(* refused one leaves it.                                                  *)
(***************************************************************************)
InitTransition ==
    /\ config = << >>
    /\ jobs = {}
    /\ blocks = {}
    /\ transactions = {}
    /\ tx_outputs = {}
    /\ tx_inputs = {}
    /\ reqs = [r \in Slots |-> Idle]
    /\ calls = 0
    /\ faults = 0
    /\ clock = 0
    /\ next_id = 1
    /\ auth = AdminAuth
    /\ probe \in {[NoProbe EXCEPT !.fn = "transition_target", !.current = s] :
                    s \in StatusStrings}

ApplyTransitionTarget(action) ==
    /\ probe.fn = "transition_target"
    /\ probe.steps < MaxSteps
    /\ LET target == transition_target(action, probe.current)
       IN probe' = [probe EXCEPT !.before = probe.current, !.action = action,
                                 !.result = target,
                                 !.current = IF target.ok THEN target.value ELSE probe.current,
                                 !.steps = probe.steps + 1]
    /\ UNCHANGED <<config, jobs, blocks, transactions, tx_outputs, tx_inputs, reqs, calls, faults, clock, next_id, auth>>

NextTransition == \E action \in Actions : ApplyTransitionTarget(action)

SpecTransition == InitTransition /\ [][NextTransition]_vars

(***************************************************************************)
(* The table of legal transitions of the specification (section 4.3):      *)
(* action, allowed current status, resulting status.                       *)
(***************************************************************************)
LegalTransitions ==
    { << "start", "created", "running" >>,
      << "pause", "running", "paused" >>,
      << "resume", "paused", "running" >>,
      << "stop", "running", "created" >>,
      << "stop", "paused", "created" >>,
      << "stop", "failed", "created" >>,
      << "retry", "failed", "running" >> }

AllowedFrom(action) == {t[2] : t \in {u \in LegalTransitions : u[1] = action}}

\* C1: transition_target answers every (action, current status): for the 7
\* pairs of the table Ok with the table's resulting status, for every other
\* pair Err(InvalidTransition) carrying the current status.
C1_TransitionTable ==
    probe.steps > 0 =>
        IF probe.before \in AllowedFrom(probe.action)
        THEN /\ probe.result.ok
             /\ << probe.action, probe.before, probe.result.value >> \in LegalTransitions
        ELSE probe.result = TargetErr(probe.before)

\* C1 witness: a refused action (pause on failed) followed by a legal one
\* (retry on the still failed job, giving running)
C1_Witness ==
    /\ probe.steps > 1
    /\ probe.action = "retry" /\ probe.before = "failed"
    /\ probe.result = TargetOk("running")
    /\ probe.current = "running"

(***************************************************************************)
(* What the claims speak of.                                               *)
(***************************************************************************)
JobExists(job_id) == \E row \in jobs : row.job_id = job_id

\* slot r holds a call that has not returned yet
InFlight(r) == reqs[r].pc \notin {"idle", "done"}

\* this step sends the statement slot r is at (the step is r's own)
StepOf(r) == InFlight(r) /\ reqs'[r] /= reqs[r]

\* this step is r's and its statement reached the store and was answered
\* (the connection did not fail under it)
ConnectedStepOf(r) == StepOf(r) /\ faults' = faults

\* slot r holds a returned call of one of the five actions
ReturnedAction(r, action, job_id) ==
    /\ reqs[r].op = "transition" /\ reqs[r].pc = "done"
    /\ reqs[r].action = action /\ reqs[r].job_id = job_id

\* C2: an action on an existing job whose status is not an allowed from-state
\* of the action fails with InvalidTransition(current status) at its read and
\* writes nothing.
C2_ConflictNoWrite ==
    [][\A r \in Slots :
          ( /\ ConnectedStepOf(r)
            /\ reqs[r].op = "transition" /\ reqs[r].pc = "select"
            /\ JobExists(reqs[r].job_id)
            /\ FetchJob(jobs, reqs[r].job_id).status \notin AllowedFrom(reqs[r].action) )
          => /\ reqs'[r].pc = "done"
             /\ reqs'[r].result =
                    ErrInvalidTransition(FetchJob(jobs, reqs[r].job_id).status)
             /\ jobs' = jobs]_vars

\* C3: get and the five actions on a job_id without a row fail with NotFound;
\* the call creates no row and changes none.
C3_AbsentNotFound ==
    [][\A r \in Slots :
          ( /\ ConnectedStepOf(r)
            /\ reqs[r].op \in {"get", "transition"} /\ reqs[r].pc = "select"
            /\ ~JobExists(reqs[r].job_id) )
          => /\ reqs'[r].pc = "done"
             /\ reqs'[r].result = ErrNotFound
             /\ jobs' = jobs]_vars

\* C4: the only two calls since bootstrap are two start calls on the same
\* configured (so: created) job, in any interleaving, on a store whose
\* connection never failed: they are never both successful, and one of them
\* reports InvalidTransition.
C4_OneStartWins ==
    \A job_id \in JobIds : \A r1, r2 \in Slots :
        ( /\ r1 /= r2
          /\ calls = 2 /\ faults = 0
          /\ JobExists(job_id)
          /\ ReturnedAction(r1, "start", job_id)
          /\ ReturnedAction(r2, "start", job_id) )
        => /\ ~(reqs[r1].result.tag = "Ok" /\ reqs[r2].result.tag = "Ok")
           /\ \/ reqs[r1].result.tag = "InvalidTransition"
              \/ reqs[r2].result.tag = "InvalidTransition"

\* the sequence of the scenario: action, status it is called in
LifecyclePairs ==
    { << "start", "created" >>, << "pause", "running" >>,
      << "resume", "paused" >>, << "stop", "running" >> }

\* C6: each call of start, pause, resume, stop made on its own (no other call
\* in flight, the connection up) in the status the sequence has reached
\* passes its check, and returns Ok with the job in the status it wrote.
C6_Lifecycle ==
    [][\A r \in Slots :
          ( /\ ConnectedStepOf(r)
            /\ reqs[r].op = "transition"
            /\ \A q \in Slots \ {r} : ~InFlight(q) )
          => /\ ( /\ reqs[r].pc = "select"
                  /\ JobExists(reqs[r].job_id)
                  /\ << reqs[r].action, FetchJob(jobs, reqs[r].job_id).status >>
                         \in LifecyclePairs )
                => /\ reqs'[r].pc = "update"
                   /\ << reqs[r].action, FetchJob(jobs, reqs[r].job_id).status,
                         reqs'[r].next >> \in LegalTransitions
             /\ reqs[r].pc = "update"
                => FetchJob(jobs', reqs[r].job_id).status = reqs[r].next
             /\ reqs[r].pc = "get"
                => /\ reqs'[r].result = OkItem(FetchJob(jobs, reqs[r].job_id))
                   /\ reqs'[r].result.item.status = reqs[r].next]_vars

(***************************************************************************)
(* A deployment on a database that earlier deployments (and whatever else  *)
(* writes the jobs table, such as the executor the service leaves to       *)
(* others) have left rows in: bootstrap runs sync_from_config before the   *)
(* API is served, and a second instance may bootstrap at the same time.    *)
(***************************************************************************)
\* a row as an earlier deployment left it: its snapshot is of the earlier
\* configuration, in which the job was not enabled
PriorRow(id, m, status, progress) ==
    [job_id |-> id, mode |-> m, status |-> status, progress_height |-> progress,
     config_snapshot |-> Snapshot([JobConfigOf(id, m) EXCEPT !.enabled = FALSE]),
     updated_at |-> 0,
     last_error |-> IF status = "failed" THEN "boom" ELSE NULL]

PriorRows(id) == {PriorRow(id, m, status, progress) :
                    m \in Modes, status \in Statuses, progress \in {0, 7}}

PriorStores ==
    {{}} \cup {{row} : row \in PriorRows("full-sync")}
         \cup {{row, PriorRow("watch", "all_addresses", "paused", 7)} :
                  row \in PriorRows("full-sync")}

InitRedeploy ==
    /\ config \in Configs
    /\ jobs \in PriorStores
    /\ blocks = {}
    /\ transactions = {}
    /\ tx_outputs = {}
    /\ tx_inputs = {}
    /\ reqs = [r \in Slots |-> Idle]
    /\ calls = 0
    /\ faults = 0
    /\ clock = 0
    /\ next_id = 1
    /\ auth = AdminAuth
    /\ probe = NoProbe

NextRedeploy ==
    \/ \E r \in Slots : CallSync(r, config)
    \/ \E r \in Slots : SyncStep(r)
    \/ \E r \in Slots : Return(r)
    \/ Tick

SpecRedeploy == InitRedeploy /\ [][NextRedeploy]_vars

\* the job a sync call is about to upsert
SyncJob(r) == reqs[r].cfg[reqs[r].k]

\* this step is the upsert of a configured job by the sync call in slot r
SyncStepOf(r) == StepOf(r) /\ reqs[r].op = "sync" /\ Len(reqs[r].cfg) > 0

\* C7: sync_from_config on a job_id that has a row, whatever the row's status
\* and progress_height, leaves status, progress_height (and last_error) as they
\* are and sets mode, config snapshot and timestamp from the configuration;
\* no row appears or disappears.
C7_SyncPreserves ==
    [][\A r \in Slots :
          (SyncStepOf(r) /\ JobExists(SyncJob(r).job_id))
          => /\ Cardinality(jobs') = Cardinality(jobs)
             /\ \A row \in jobs :
                  IF row.job_id /= SyncJob(r).job_id THEN row \in jobs'
                  ELSE \E row2 \in jobs' :
                         /\ row2.job_id = row.job_id
                         /\ row2.status = row.status
                         /\ row2.progress_height = row.progress_height
                         /\ row2.last_error = row.last_error
                         /\ faults' = faults
                            => /\ row2.mode = SyncJob(r).mode
                               /\ row2.config_snapshot = Snapshot(SyncJob(r))
                               /\ row2.updated_at = clock]_vars

\* C7 witness: a paused job at height 7 and a failed one, both rewritten by a
\* sync that has returned: they carry the new snapshot and the new timestamp
C7_Witness ==
    /\ \E r \in Slots : reqs[r].op = "sync" /\ reqs[r].pc = "done" /\ reqs[r].result = OkUnit
    /\ \E row \in jobs :
         /\ row.status = "paused" /\ row.progress_height = 7
         /\ row.config_snapshot.enabled /\ row.updated_at = 1
    /\ \E row \in jobs :
         /\ row.status = "failed" /\ row.last_error = "boom"
         /\ row.config_snapshot.enabled /\ row.mode = "all_addresses"

\* a table without its timestamps
StripTime(table) == {[row EXCEPT !.updated_at = 0] : row \in table}

\* C8: the configuration bootstrap applied, applied a second time by the only
\* call since: the rows are those the first application left, field by field,
\* but for the timestamp.
C8_SyncIdempotent ==
    \A r \in Slots :
        ( /\ calls = 1
          /\ reqs[r].op = "sync" /\ reqs[r].pc = "done"
          /\ reqs[r].cfg = config
          /\ reqs[r].result = OkUnit )
        => /\ StripTime(jobs) = StripTime(Bootstrap(config))
           /\ Cardinality(jobs) = Cardinality(Bootstrap(config))

\* C8 witness: the second application of a two-job configuration has
\* returned, at a later time than the first
C8_Witness ==
    \E r \in Slots :
        /\ calls = 1
        /\ reqs[r].op = "sync" /\ reqs[r].pc = "done"
        /\ reqs[r].cfg = config /\ Len(config) = 2
        /\ reqs[r].result = OkUnit
        /\ \A row \in jobs : row.updated_at = 1

\* C9: the upsert of a configured job_id without a row adds exactly one row:
\* status created, progress_height 0, the configured mode and snapshot; and
\* when a sync returns Ok every job_id of its list has exactly one row.
C9_SyncCreates ==
    [][\A r \in Slots :
          /\ ( /\ SyncStepOf(r) /\ faults' = faults
               /\ ~JobExists(SyncJob(r).job_id) )
             => jobs' = jobs \cup
                    {[job_id |-> SyncJob(r).job_id, mode |-> SyncJob(r).mode,
                      status |-> "created", progress_height |-> 0,
                      config_snapshot |-> Snapshot(SyncJob(r)),
                      updated_at |-> clock, last_error |-> NULL]}
          /\ ( /\ StepOf(r) /\ reqs[r].op = "sync"
               /\ reqs'[r].pc = "done" /\ reqs'[r].result = OkUnit )
             => \A k \in 1..Len(reqs[r].cfg) :
                    Cardinality({row \in jobs' : row.job_id = reqs[r].cfg[k].job_id}) = 1]_vars

\* C9 witness: a deployment without jobs; the only call since is a sync of two
\* jobs, which has returned Ok: both rows are there, created, at height 0
C9_Witness ==
    \E r \in Slots :
        /\ calls = 1 /\ config = << >>
        /\ reqs[r].op = "sync" /\ reqs[r].pc = "done" /\ reqs[r].result = OkUnit
        /\ Len(reqs[r].cfg) = 2
        /\ Cardinality(jobs) = 2
        /\ \A row \in jobs : row.status = "created" /\ row.progress_height = 0

(***************************************************************************)
(* persist_block run to its end: every write of the block applied, in      *)
(* order, by the repository it goes to.                                    *)
(***************************************************************************)
Store(b, t, o, i) == [blocks |-> b, transactions |-> t, tx_outputs |-> o, tx_inputs |-> i]

ApplyWrite(store, w) ==
    CASE w.kind = "block"  -> [store EXCEPT !.blocks = BlocksUpsert(store.blocks, w.rec)]
      [] w.kind = "tx"     -> [store EXCEPT !.transactions =
                                                TransactionsUpsert(store.transactions, w.rec)]
      [] w.kind = "input"  -> [store EXCEPT !.tx_inputs = TxInputsInsert(store.tx_inputs, w.rec)]
      [] w.kind = "output" -> [store EXCEPT !.tx_outputs =
                                                TxOutputsInsert(store.tx_outputs, w.rec)]

RECURSIVE ApplyWrites(_, _, _)
ApplyWrites(store, ws, k) ==
    IF k > Len(ws) THEN store
    ELSE ApplyWrites(ApplyWrite(store, ws[k]), ws, k + 1)

PersistAll(store, block) == ApplyWrites(store, Writes(block), 1)

\* the persist call in slot r has returned
ReturnedPersist(r, block) ==
    reqs[r].op = "persist" /\ reqs[r].pc = "done" /\ reqs[r].block = block

\* C10: on a connection that never failed, persist_block of a block, called
\* once or twice on the empty store and nothing else, returns Ok each time, and
\* the four tables hold what one full run writes: one block row for the hash,
\* one transaction row per txid, one row per (txid, vout) and (txid, vin).
C10_PersistTwice ==
    \A block \in Blocks : \A r1, r2 \in Slots :
        ( /\ faults = 0
          /\ ReturnedPersist(r1, block)
          /\ \/ calls = 1
             \/ calls = 2 /\ r2 /= r1 /\ ReturnedPersist(r2, block) )
        => /\ reqs[r1].result = OkUnit
           /\ Store(blocks, transactions, tx_outputs, tx_inputs)
                = PersistAll(Store({}, {}, {}, {}), block)
           /\ Cardinality({row \in blocks : row.hash = block.hash}) = 1

(***************************************************************************)
(* The repositories called on their own: each method is one statement.     *)
(***************************************************************************)
RECURSIVE SeqToSet(_)
SeqToSet(seq) == IF seq = << >> THEN {} ELSE {Head(seq)} \cup SeqToSet(Tail(seq))

\* the records the repositories are handed: those of the blocks above
RepoWrites == UNION {SeqToSet(Writes(b)) : b \in Blocks}

CallRepo(r, w) ==
    /\ reqs[r].op = "idle"
    /\ Begin(r, [Idle EXCEPT !.op = "repo", !.action = w.kind, !.rec = w.rec, !.pc = "write"])

RepoStep(r) ==
    /\ reqs[r].op = "repo" /\ reqs[r].pc = "write"
    /\ \E io \in IoChoices :
         LET kind == reqs[r].action
             rec == reqs[r].rec
             out == Execute(StatementOf(kind), io)
             done == out = "ok"
         IN /\ reqs' = IF done THEN Finish(r, OkUnit) ELSE Finish(r, ErrStorage(out))
            /\ blocks' = IF done /\ kind = "block" THEN BlocksUpsert(blocks, rec) ELSE blocks
            /\ transactions' = IF done /\ kind = "tx"
                               THEN TransactionsUpsert(transactions, rec) ELSE transactions
            /\ tx_inputs' = IF done /\ kind = "input"
                            THEN TxInputsInsert(tx_inputs, rec) ELSE tx_inputs
            /\ tx_outputs' = IF done /\ kind = "output"
                             THEN TxOutputsInsert(tx_outputs, rec) ELSE tx_outputs
            /\ faults' = IF io THEN faults + 1 ELSE faults
    /\ UNCHANGED <<config, jobs, calls, clock, probe, next_id, auth>>

NextRepo ==
    \/ \E r \in Slots, w \in RepoWrites : CallRepo(r, w)
    \/ \E r \in Slots : RepoStep(r)
    \/ \E r \in Slots : Return(r)
    \/ Tick

SpecRepo == Init /\ [][NextRepo]_vars

\* slot r holds a returned repository call of this kind
ReturnedRepo(r, kind) ==
    reqs[r].op = "repo" /\ reqs[r].pc = "done" /\ reqs[r].action = kind

SameOutputKey(row, rec) == row.txid = rec.txid /\ row.vout = rec.vout
SameInputKey(row, rec) == row.txid = rec.txid /\ row.vin = rec.vin

\* C12: once a row with key (txid, vout) or (txid, vin) is stored, an insert
\* with that key that reaches the store, whatever fields it carries, returns
\* Ok and leaves the table as it was; and no step of any call changes or
\* removes a stored output or input row.
C12_RowsImmutable ==
    [][/\ \A row \in tx_outputs : row \in tx_outputs'
       /\ \A row \in tx_inputs : row \in tx_inputs'
       /\ \A r \in Slots :
            (ConnectedStepOf(r) /\ reqs[r].op = "repo")
            => /\ ( /\ reqs[r].action = "output"
                    /\ \E row \in tx_outputs : SameOutputKey(row, reqs[r].rec) )
                  => reqs'[r].result = OkUnit /\ tx_outputs' = tx_outputs
               /\ ( /\ reqs[r].action = "input"
                    /\ \E row \in tx_inputs : SameInputKey(row, reqs[r].rec) )
                  => reqs'[r].result = OkUnit /\ tx_inputs' = tx_inputs]_vars

\* C12 witness: an insert of an output with the key of a stored row and other
\* field values has returned Ok
C12_Witness ==
    \E r \in Slots : \E row \in tx_outputs :
        /\ ReturnedRepo(r, "output") /\ reqs[r].result = OkUnit
        /\ SameOutputKey(row, reqs[r].rec)
        /\ row.value_sats /= reqs[r].rec.value_sats
        /\ calls = 2

\* C13: an upsert of a block (resp. transaction) record that reaches the store
\* returns Ok, and the row stored for its hash (resp. txid) is then the record
\* of that upsert, the latest one with the key.
C13_LatestWriteWins ==
    [][\A r \in Slots :
          ( /\ ConnectedStepOf(r) /\ reqs[r].op = "repo"
            /\ reqs[r].action \in {"block", "tx"} )
          => /\ reqs'[r].result = OkUnit
             /\ reqs[r].action = "block"
                => {row \in blocks' : row.hash = reqs[r].rec.hash} = {reqs[r].rec}
             /\ reqs[r].action = "tx"
                => {row \in transactions' : row.txid = reqs[r].rec.txid} = {reqs[r].rec}]_vars

(***************************************************************************)
(* rpc/mod.rs RpcClient::call: one JSON-RPC request.  What comes back is   *)
(* the node's and the network's choice: the request may not get through,   *)
(* the HTTP status may be an error, the body may not decode, and a decoded  *)
(* body carries an optional error and an optional result.                  *)
(***************************************************************************)
\* RpcError::Http(reqwest::Error): cause is "Http"
ErrRpc(cause) == [tag |-> "Rpc", detail |-> cause, item |-> NoItem, items |-> << >>]

\* RpcError::Rpc(message)
ErrRpcMessage(message) ==
    [tag |-> "Rpc", detail |-> "Rpc", item |-> [message |-> message], items |-> << >>]

\* a field of the JSON body: left out, null, or a value
Absent == [json |-> "absent"]
JsonNull == [json |-> "null"]
Json(v) == [json |-> "value", v |-> v]

\* serde on an Option field: a field left out and a null both decode to None
OptionOf(field) == IF field.json = "value" THEN Some(field.v) ELSE None

Response(sent, status_ok, decodes, error, result) ==
    [sent |-> sent, status_ok |-> status_ok, decodes |-> decodes,
     error |-> error, result |-> result]

\* no answer (connection refused, timeout); an error status without a JSON
\* body; an error status with a JSON-RPC error in the body; a body that
\* does not decode; and every decodable body under a success status
RpcResponses(values) ==
    { Response(FALSE, FALSE, FALSE, Absent, Absent),
      Response(TRUE, FALSE, FALSE, Absent, Absent),
      Response(TRUE, FALSE, TRUE, Json("boom"), JsonNull),
      Response(TRUE, TRUE, FALSE, Absent, Absent) }
    \cup { Response(TRUE, TRUE, TRUE, error, result) :
             error \in {Absent, JsonNull, Json("boom")},
             result \in {Absent, JsonNull} \cup {Json(v) : v \in values} }

\* a slip: the result looked at before the error
call_result_first(response) ==
    IF ~response.sent \/ ~response.status_ok \/ ~response.decodes THEN ErrRpc("Http")
    ELSE LET payload == [error |-> OptionOf(response.error), result |-> OptionOf(response.result)]
         IN IF payload.result.some THEN OkItem(payload.result.v)
            ELSE IF payload.error.some THEN ErrRpcMessage(payload.error.v)
            ELSE ErrRpcMessage("missing result")

\* a slip: .error_for_status() left out, the body decoded under any status
call_ignores_status(response) ==
    IF ~response.sent \/ ~response.decodes THEN ErrRpc("Http")
    ELSE LET payload == [error |-> OptionOf(response.error), result |-> OptionOf(response.result)]
         IN IF payload.error.some THEN ErrRpcMessage(payload.error.v)
            ELSE IF ~payload.result.some THEN ErrRpcMessage("missing result")
            ELSE OkItem(payload.result.v)

\* what call makes of the answer to its request
call(response) ==
    \* .send().await?  .error_for_status()?  response.json().await?
    IF ~response.sent \/ ~response.status_ok \/ ~response.decodes THEN ErrRpc("Http")
    ELSE LET payload == [error |-> OptionOf(response.error), result |-> OptionOf(response.result)]
         \* if let Some(error) = payload.error
         IN IF payload.error.some THEN ErrRpcMessage(payload.error.v)
            \* payload.result.ok_or_else(|| RpcError::Rpc("missing result"))
            ELSE IF ~payload.result.some THEN ErrRpcMessage("missing result")
            ELSE OkItem(payload.result.v)

\* a slip: the counter read, not advanced
FetchAdd_load(counter) == [id |-> counter, next |-> counter]

\* self.id.fetch_add(1, Ordering::Relaxed): one atomic step
FetchAdd(counter) == [id |-> counter, next |-> counter + 1]

(***************************************************************************)
(* indexer/mod.rs IndexerService::index_height                             *)
(***************************************************************************)
Heights == {1, 2}
Hashes == {"ha", "hb"}

CallIndex(r, height) ==
    /\ reqs[r].op = "idle"
    /\ Begin(r, [Idle EXCEPT !.op = "index", !.height = height, !.client = "client",
                             !.pc = "hash"])

\* a slip: the error of an RPC call dropped (`.ok()`), the call ending quietly
IndexStep_swallows_errors(r) ==
    /\ reqs[r].op = "index" /\ reqs[r].pc \in {"hash", "block"}
    /\ \E response \in IF reqs[r].pc = "hash" THEN RpcResponses(Hashes)
                                              ELSE RpcResponses(Blocks) :
         LET taken == FetchAdd(next_id)
             out == call(response)
         IN /\ reqs' = IF out.tag /= "Ok" THEN Finish(r, OkUnit)
                       ELSE IF reqs[r].pc = "hash"
                       THEN [reqs EXCEPT ![r].next = out.item, ![r].pc = "block"]
                       ELSE [reqs EXCEPT ![r].block = out.item, ![r].pc = "write", ![r].k = 1]
            /\ next_id' = taken.next
    /\ UNCHANGED <<config, jobs, blocks, transactions, tx_outputs, tx_inputs, calls, faults, clock, probe, auth>>

\* get_block_hash(height), then get_block_verbose2(&hash): each is one call
\* of the client, which takes the next request id (a local of that call)
\* and sends one request; `?` returns the error of either; the block goes
\* to persist_block
IndexStep(r) ==
    /\ reqs[r].op = "index" /\ reqs[r].pc \in {"hash", "block"}
    /\ \E response \in IF reqs[r].pc = "hash" THEN RpcResponses(Hashes)
                                              ELSE RpcResponses(Blocks) :
         LET taken == FetchAdd(next_id)
             out == call(response)
         IN /\ reqs' = IF out.tag /= "Ok" THEN Finish(r, out)
                       ELSE IF reqs[r].pc = "hash"
                       THEN [reqs EXCEPT ![r].next = out.item, ![r].pc = "block"]
                       ELSE [reqs EXCEPT ![r].block = out.item, ![r].pc = "write", ![r].k = 1]
            /\ next_id' = taken.next
    /\ UNCHANGED <<config, jobs, blocks, transactions, tx_outputs, tx_inputs, calls, faults, clock, probe, auth>>

NextIndexer ==
    \/ \E r \in Slots, h \in Heights : CallIndex(r, h)
    \/ \E r \in Slots : IndexStep(r)
    \/ \E r \in Slots : PersistStep(r)
    \/ \E r \in Slots : Return(r)
    \/ Tick

SpecIndexer == Init /\ [][NextIndexer]_vars

(***************************************************************************)
(* Everything that writes the store, together.                             *)
(***************************************************************************)
NextStore ==
    \/ Next
    \/ \E r \in Slots, w \in RepoWrites : CallRepo(r, w)
    \/ \E r \in Slots : RepoStep(r)
    \/ \E r \in Slots, h \in Heights : CallIndex(r, h)
    \/ \E r \in Slots : IndexStep(r)

SpecStore == Init /\ [][NextStore]_vars

\* the keys present in each table
BlockKeys(table) == {row.hash : row \in table}
TransactionKeys(table) == {row.txid : row \in table}
OutputKeys(table) == {<< row.txid, row.vout >> : row \in table}
InputKeys(table) == {<< row.txid, row.vin >> : row \in table}
JobKeys(table) == {row.job_id : row \in table}

\* C14: in every reachable state each table has one row per key: hash, txid,
\* (txid, vout), (txid, vin), job_id.
C14_KeysUnique ==
    /\ Cardinality(BlockKeys(blocks)) = Cardinality(blocks)
    /\ Cardinality(TransactionKeys(transactions)) = Cardinality(transactions)
    /\ Cardinality(OutputKeys(tx_outputs)) = Cardinality(tx_outputs)
    /\ Cardinality(InputKeys(tx_inputs)) = Cardinality(tx_inputs)
    /\ Cardinality(JobKeys(jobs)) = Cardinality(jobs)

\* C14 witness: two jobs configured, each with its row; two inserts of an
\* input with the same key and different fields have both returned Ok, and
\* the key has its one row
C14_Witness ==
    \E r1, r2 \in Slots :
        /\ Len(config) = 2 /\ Cardinality(jobs) = 2
        /\ ReturnedRepo(r1, "input") /\ reqs[r1].result = OkUnit
        /\ ReturnedRepo(r2, "input") /\ reqs[r2].result = OkUnit
        /\ SameInputKey(reqs[r1].rec, reqs[r2].rec)
        /\ reqs[r1].rec /= reqs[r2].rec
        /\ Cardinality(tx_inputs) = 1

\* C15: no step removes a key from any table.
C15_NoDeletion ==
    [][/\ BlockKeys(blocks) \subseteq BlockKeys(blocks')
       /\ TransactionKeys(transactions) \subseteq TransactionKeys(transactions')
       /\ OutputKeys(tx_outputs) \subseteq OutputKeys(tx_outputs')
       /\ InputKeys(tx_inputs) \subseteq InputKeys(tx_inputs')
       /\ JobKeys(jobs) \subseteq JobKeys(jobs')]_vars

\* C15 witness: two jobs were configured; a sync of a configuration that has
\* only one of them has returned Ok, and the other job's row is still there
C15_Witness ==
    \E r \in Slots :
        /\ reqs[r].op = "sync" /\ reqs[r].pc = "done" /\ reqs[r].result = OkUnit
        /\ Len(reqs[r].cfg) = 1 /\ Len(config) = 2
        /\ \E row \in jobs : row.job_id /= reqs[r].cfg[1].job_id
        /\ \E row \in jobs : row.job_id = reqs[r].cfg[1].job_id /\ row.updated_at = 1

\* slot r holds a persist_block call (its own, or that of index_height), in
\* progress or returned
PersistCall(r) ==
    /\ reqs[r].op \in {"persist", "index"}
    /\ reqs[r].pc \in {"write", "done"}
    /\ reqs[r].block /= NoItem

\* the positions of the transaction upserts among the calls ws
TxPositions(ws) == {i \in 1..Len(ws) : ws[i].kind = "tx"}

\* the transaction upsert that comes last before position i
LastTxBefore(ws, i) ==
    CHOOSE j \in TxPositions(ws) : j < i /\ \A m \in TxPositions(ws) : m < i => m <= j

\* C16 as stated: among the repository calls of one persist_block the block
\* row comes first, and every transaction row of the block comes before any
\* input or output row.
C16_RowsBeforeInputsOutputs ==
    \A r \in Slots :
        PersistCall(r)
        => LET ws == Writes(reqs[r].block)
           IN /\ ws[1].kind = "block"
              /\ \A i, j \in 1..Len(ws) :
                   (ws[i].kind \in {"input", "output"} /\ ws[j].kind = "tx") => j < i

\* C16, as the code orders the calls: the block row first and once; then for
\* each transaction, in source order, its transaction row, then its input
\* rows, then its output rows.  So the transaction row written last before an
\* input or output row is that of the row's own transaction, and the rows of
\* the earlier transactions of the block (and of no later one) are written.
C16_WritesPerTransaction ==
    \A r \in Slots :
        PersistCall(r)
        => LET b == reqs[r].block
               ws == Writes(b)
               txs == TxPositions(ws)
           IN /\ ws[1].kind = "block"
              /\ \A i \in 2..Len(ws) : ws[i].kind /= "block"
              /\ Cardinality(txs) = Len(b.tx)
              /\ \A i \in txs :
                   ws[i].rec.txid = b.tx[Cardinality({j \in txs : j <= i})].txid
              /\ \A i \in 2..Len(ws) :
                   ws[i].kind \in {"input", "output"}
                   => /\ \E j \in txs : j < i
                      /\ ws[LastTxBefore(ws, i)].rec.txid = ws[i].rec.txid
              /\ \A i, j \in 2..Len(ws) :
                   ( /\ i < j /\ ws[i].kind = "output" /\ ws[j].kind = "input" )
                   => \E m \in txs : i < m /\ m < j

\* C16 witness: persist_block of a block of two transactions has returned; the
\* outputs of its first transaction come before the row of its second
C16_Witness ==
    \E r \in Slots :
        /\ PersistCall(r) /\ reqs[r].op = "persist" /\ reqs[r].pc = "done"
        /\ Len(reqs[r].block.tx) = 2
        /\ LET ws == Writes(reqs[r].block)
           IN \E i, j \in 1..Len(ws) :
                i < j /\ ws[i].kind = "output" /\ ws[j].kind = "tx"

\* the four tables persist_block writes
BlockStore == << blocks, transactions, tx_outputs, tx_inputs >>

\* the repository call the persist in slot r is at
CurrentWrite(r) == Writes(reqs[r].block)[reqs[r].k]

\* C17: when the write a persist_block is at fails (the connection fails
\* under it, or the store rejects its statement), the call returns that error
\* there and then, without advancing to a later write; the step writes
\* nothing and takes nothing back, so the rows written before stay; and a
\* call that has returned writes no more.
C17_PersistAborts ==
    [][/\ \A r \in Slots :
            ( /\ StepOf(r) /\ reqs[r].op = "persist" /\ reqs[r].pc = "write"
              /\ \/ faults' /= faults
                 \/ ~Accepted(StatementOf(CurrentWrite(r).kind)) )
            => /\ reqs'[r].pc = "done"
               /\ reqs'[r].result =
                      ErrStorage(IF faults' /= faults THEN "Io" ELSE "Database")
               /\ reqs'[r].k = reqs[r].k
               /\ BlockStore' = BlockStore
       /\ (\A r \in Slots : ~InFlight(r)) => BlockStore' = BlockStore]_vars

\* C17 witness: a persist_block of a block with transactions has returned a
\* storage error at a write that had others after it, and none of them ran
C17_Witness ==
    \E r \in Slots :
        /\ reqs[r].op = "persist" /\ reqs[r].pc = "done"
        /\ reqs[r].result = ErrStorage("Io")
        /\ reqs[r].k < Len(Writes(reqs[r].block))
        /\ \A w \in SeqToSet(Writes(reqs[r].block)) :
             /\ w.kind = "tx" => w.rec \notin transactions
             /\ w.kind = "output" => w.rec \notin tx_outputs
             /\ w.kind = "input" => w.rec \notin tx_inputs

\* C18: index_height asks for the hash, then for the block, then persists, in
\* that order.  A step at either RPC call goes on to the next stage with what
\* the node answered, or ends the call with the RPC error; it never stays
\* where it is (no retry), never reaches persist_block without a block, and
\* leaves the store as it is.  A call ended by an RPC error has attempted no
\* write.
C18_IndexPropagates ==
    [][\A r \in Slots :
          (StepOf(r) /\ reqs[r].op = "index")
          => /\ reqs[r].pc = "hash"
                => /\ \/ /\ reqs'[r].pc = "block" /\ reqs'[r].next \in Hashes
                      \/ /\ reqs'[r].pc = "done" /\ reqs'[r].result.tag = "Rpc"
                   /\ reqs'[r].block = NoItem /\ reqs'[r].k = 0
             /\ reqs[r].pc = "block"
                => /\ \/ /\ reqs'[r].pc = "write" /\ reqs'[r].block \in Blocks
                         /\ reqs'[r].k = 1
                      \/ /\ reqs'[r].pc = "done" /\ reqs'[r].result.tag = "Rpc"
                         /\ reqs'[r].block = NoItem /\ reqs'[r].k = 0
                   /\ reqs'[r].next = reqs[r].next
             /\ reqs[r].pc \in {"hash", "block"}
                => BlockStore' = BlockStore /\ jobs' = jobs /\ faults' = faults
             /\ reqs[r].pc = "write" => reqs[r].block \in Blocks]_vars

\* C18 witness: one index_height has returned the RPC error of its block
\* fetch, the hash resolved; another that of its hash lookup; the store is
\* as it was
C18_Witness ==
    \E r1, r2 \in Slots :
        /\ reqs[r1].op = "index" /\ reqs[r1].pc = "done"
        /\ reqs[r1].result = ErrRpc("Http") /\ reqs[r1].next \in Hashes
        /\ reqs[r1].block = NoItem
        /\ reqs[r2].op = "index" /\ reqs[r2].pc = "done"
        /\ reqs[r2].result = ErrRpcMessage("missing result") /\ reqs[r2].next = ""
        /\ BlockStore = << {}, {}, {}, {} >>

\* the only call since bootstrap is a persist_block, it has returned, and the
\* connection to the store never failed
PersistedAlone(r) ==
    /\ reqs[r].op = "persist" /\ reqs[r].pc = "done"
    /\ calls = 1 /\ faults = 0

\* C19: after persist_block of a block on a working store, tx_inputs has a
\* row for an input exactly if the input carries both a previous txid and a
\* previous output index; the row is keyed by the spending txid and the
\* zero-based position of the input in the input list and carries the input's
\* prev_txid, prev_vout and sequence; there is no other input row.
C19_InputRows ==
    \A r \in Slots :
        PersistedAlone(r)
        => LET b == reqs[r].block
               expected ==
                   UNION { { [txid |-> b.tx[t].txid, vin |-> p - 1,
                              prev_txid |-> b.tx[t].vin[p].txid,
                              prev_vout |-> b.tx[t].vin[p].vout.v,
                              sequence |-> b.tx[t].vin[p].sequence] :
                             p \in { q \in 1..Len(b.tx[t].vin) :
                                       /\ b.tx[t].vin[q].txid /= NULL
                                       /\ b.tx[t].vin[q].vout.some } } :
                           t \in 1..Len(b.tx) }
           IN tx_inputs = expected

(***************************************************************************)
(* The address of an output on its own (indexer/mod.rs 101-116): from      *)
(* any decoded script_pub_key, the record persist_block builds for the     *)
(* output that carries it.                                                 *)
(***************************************************************************)
ScriptPubKeys ==
    {ScriptPubKey(type, "00", address, addresses) :
        type \in {"pubkeyhash", "multisig"},
        address \in {NULL, "", "addr1"},
        addresses \in {NoList, Some(<< >>), Some(<< "addr2" >>), Some(<< "addr3", "addr2" >>),
                       Some(<< "", "addr2" >>)}}

InitAddress ==
    /\ config = << >>
    /\ jobs = {}
    /\ blocks = {}
    /\ transactions = {}
    /\ tx_outputs = {}
    /\ tx_inputs = {}
    /\ reqs = [r \in Slots |-> Idle]
    /\ calls = 0
    /\ faults = 0
    /\ clock = 0
    /\ next_id = 1
    /\ auth = AdminAuth
    /\ probe \in {[fn |-> "address", spk |-> spk,
                   record |-> TxOutputRecordOf(Tx("t1", << >>, << Vout(0, 0, spk) >>), 1),
                   steps |-> 0] : spk \in ScriptPubKeys}

ApplyResolveAddress(spk) ==
    /\ probe.fn = "address"
    /\ probe.steps < MaxSteps
    /\ probe' = [probe EXCEPT !.spk = spk,
                              !.record = TxOutputRecordOf(Tx("t1", << >>, << Vout(0, 0, spk) >>), 1),
                              !.steps = probe.steps + 1]
    /\ UNCHANGED <<config, jobs, blocks, transactions, tx_outputs, tx_inputs, reqs, calls, faults, clock, next_id, auth>>

NextAddress == \E spk \in ScriptPubKeys : ApplyResolveAddress(spk)

SpecAddress == InitAddress /\ [][NextAddress]_vars

\* C21: the address of an output's record is the singular address field
\* when that field is present, also when a legacy list is present too;
\* otherwise the first element of the legacy list when the list is present
\* and not empty; otherwise null.
C21_AddressResolution ==
    probe.fn = "address" =>
        LET spk == probe.spk
            stored == probe.record.address
        IN /\ spk.address /= NULL => stored = spk.address
           /\ (spk.address = NULL /\ spk.addresses.some /\ spk.addresses.v /= << >>)
                  => stored = Head(spk.addresses.v)
           /\ (spk.address = NULL /\ (~spk.addresses.some \/ spk.addresses.v = << >>))
                  => stored = NULL

\* both fields present and different: the singular address is the one kept
C21_Witness ==
    /\ probe.fn = "address"
    /\ probe.steps > 0
    /\ probe.spk.address = "addr1"
    /\ probe.spk.addresses = Some(<< "addr3", "addr2" >>)
    /\ probe.record.address = "addr1"

(***************************************************************************)
(* btc_to_sats on its own (indexer/mod.rs 153-155, and its test 161-166):  *)
(* from any decimal value, the f64 it decodes to and the minor units       *)
(* btc_to_sats makes of that f64.                                          *)
(***************************************************************************)
Decimals ==
    {Decimal(neg, coins, nano) :
        neg \in BOOLEAN,
        coins \in {0, 1, 4, 20999999},
        nano \in {0, 10, 5, 15, 25, 35, 123456780, 290000000, 350000000, 976900000, 999999990}}
    \cup {Decimal(FALSE, 21000000, 0), Decimal(TRUE, 21000000, 0)}

SatsProbe(d, steps) ==
    [fn |-> "btc_to_sats", decimal |-> d, value |-> f64(d), sats |-> btc_to_sats(f64(d)),
     steps |-> steps]

InitSats ==
    /\ config = << >>
    /\ jobs = {}
    /\ blocks = {}
    /\ transactions = {}
    /\ tx_outputs = {}
    /\ tx_inputs = {}
    /\ reqs = [r \in Slots |-> Idle]
    /\ calls = 0
    /\ faults = 0
    /\ clock = 0
    /\ next_id = 1
    /\ auth = AdminAuth
    /\ probe \in {SatsProbe(d, 0) : d \in Decimals}

ApplyBtcToSats(d) ==
    /\ probe.fn = "btc_to_sats"
    /\ probe.steps < MaxSteps
    /\ probe' = SatsProbe(d, probe.steps + 1)
    /\ UNCHANGED <<config, jobs, blocks, transactions, tx_outputs, tx_inputs, reqs, calls, faults, clock, next_id, auth>>

NextSats == \E d \in Decimals : ApplyBtcToSats(d)

SpecSats == InitSats /\ [][NextSats]_vars

\* the minor units of a decimal value, its ninth decimal place dropped
MinorUnits(d) ==
    Trim(<< (d.nano \div 10) % 10000, d.nano \div 100000, d.coins % 10000, d.coins \div 10000 >>)

\* the valid currency range: up to 21,000,000 coins, with either sign
InRange(d) == d.coins < 21000000 \/ (d.coins = 21000000 /\ d.nano = 0)

\* the f64 lies exactly half-way between two integers
Halfway(value) ==
    /\ value.k >= 1
    /\ Odd(ShiftRight(value.m, value.k - 1))
    /\ ShiftLeft(ShiftRight(value.m, value.k - 1), value.k - 1) = value.m

\* C22, as stated: the conversion gives the decimal value times 10^8,
\* rounded half away from zero, for every decimal value.
C22_RoundsDecimal ==
    probe.fn = "btc_to_sats" =>
        LET d == probe.decimal
        IN probe.sats.mag = IF d.nano % 10 >= 5 THEN AddOne(MinorUnits(d)) ELSE MinorUnits(d)

\* C22, amended: 0.0 gives 0, 1.0 gives 100000000, 0.00000001 gives 1; a
\* value with at most 8 decimal places in the valid range gives exactly its
\* minor units, with its sign; and the rounding half away from zero is that
\* of the f64 product value * 100000000.0, so that a product exactly
\* half-way between two integers gives the one farther from zero.
C22_SatsExact ==
    probe.fn = "btc_to_sats" =>
        LET d == probe.decimal
            product == Times100000000(probe.value)
        IN /\ d = Decimal(FALSE, 0, 0) => probe.sats = [neg |-> FALSE, mag |-> << >>]
           /\ d = Decimal(FALSE, 1, 0) => probe.sats = [neg |-> FALSE, mag |-> << 0, 0, 1 >>]
           /\ d = Decimal(FALSE, 0, 10) => probe.sats = [neg |-> FALSE, mag |-> << 1 >>]
           /\ (d.nano % 10 = 0 /\ InRange(d))
                  => probe.sats = [neg |-> d.neg /\ MinorUnits(d) /= << >>, mag |-> MinorUnits(d)]
           /\ Halfway(product)
                  => probe.sats = [neg |-> d.neg, mag |-> AddOne(ShiftRight(product.m, product.k))]

\* 4.35 decodes to an f64 below it, and the product 434999999.99999994 is
\* rounded up to the 435000000 minor units of 4.35
C22_Witness ==
    /\ probe.fn = "btc_to_sats"
    /\ probe.steps > 0
    /\ probe.decimal = Decimal(FALSE, 4, 350000000)
    /\ probe.value = [neg |-> FALSE, m |-> << 5414, 9476, 6645, 4897 >>, k |-> 50]
    /\ probe.sats = [neg |-> FALSE, mag |-> << 0, 3500, 4 >>]

(***************************************************************************)
(* rpc/mod.rs RpcClient::call made directly (get_block_hash, get_block,    *)
(* get_raw_transaction are one call each), on the client or on a clone of  *)
(* it, next to index_height, which makes its calls on the same client.  A  *)
(* clone holds the same Arc, so all of them advance the one counter.  A    *)
(* call first takes its id, then sends its request and gets the answer;    *)
(* other calls may run between the two.                                    *)
(***************************************************************************)
Clients == {"client", "clone"}
Methods == {"getblockhash", "getblock", "getrawtransaction"}

CallRpc(r, client, method) ==
    /\ reqs[r].op = "idle"
    /\ Begin(r, [Idle EXCEPT !.op = "rpc", !.client = client, !.action = method, !.pc = "id"])

\* let id = self.id.fetch_add(1, Ordering::Relaxed)
RpcTakeId(r) ==
    /\ reqs[r].op = "rpc" /\ reqs[r].pc = "id"
    /\ LET taken == FetchAdd(next_id)
       IN /\ reqs' = [reqs EXCEPT ![r].id = taken.id, ![r].pc = "send"]
          /\ next_id' = taken.next
    /\ UNCHANGED <<config, jobs, blocks, transactions, tx_outputs, tx_inputs, calls, faults, clock, probe, auth>>

\* a slip: a failed exchange tried once more before the error is returned
RpcExchange_retries(r) ==
    /\ reqs[r].op = "rpc" /\ reqs[r].pc = "send"
    /\ \E response \in RpcResponses(Hashes) :
         reqs' = IF call(response).tag /= "Ok" /\ reqs[r].sends = 0
                 THEN [reqs EXCEPT ![r].sends = @ + 1, ![r].rec = response]
                 ELSE [reqs EXCEPT ![r].sends = @ + 1, ![r].rec = response,
                                   ![r].pc = "done", ![r].result = call(response)]
    /\ UNCHANGED <<config, jobs, blocks, transactions, tx_outputs, tx_inputs, calls, faults, clock, probe, next_id, auth>>

\* .post(..).basic_auth(..).json(&request).send(), the answer (kept in rec),
\* and the return of what call makes of it
RpcExchange(r) ==
    /\ reqs[r].op = "rpc" /\ reqs[r].pc = "send"
    /\ \E response \in RpcResponses(Hashes) :
         reqs' = [reqs EXCEPT ![r].sends = @ + 1, ![r].rec = response,
                              ![r].pc = "done", ![r].result = call(response)]
    /\ UNCHANGED <<config, jobs, blocks, transactions, tx_outputs, tx_inputs, calls, faults, clock, probe, next_id, auth>>

NextRpc ==
    \/ \E r \in Slots, client \in Clients, method \in Methods : CallRpc(r, client, method)
    \/ \E r \in Slots : RpcTakeId(r)
    \/ \E r \in Slots : RpcExchange(r)
    \/ \E r \in Slots, h \in Heights : CallIndex(r, h)
    \/ \E r \in Slots : IndexStep(r)
    \/ \E r \in Slots : PersistStep(r)
    \/ \E r \in Slots : Return(r)

SpecRpc == Init /\ [][NextRpc]_vars

\* slot r holds a returned call of the client, its answer in rec
ReturnedRpc(r) == reqs[r].op = "rpc" /\ reqs[r].pc = "done"

Null(field) == field.json \in {"absent", "null"}

\* C23, as stated: every response the node returns is classified by its
\* error and result fields alone.
C23_ClassifiesEvery ==
    \A r \in Slots :
        (ReturnedRpc(r) /\ reqs[r].rec.sent)
        => LET response == reqs[r].rec
           IN /\ ~Null(response.error) => reqs[r].result = ErrRpcMessage(response.error.v)
              /\ (Null(response.error) /\ Null(response.result))
                     => reqs[r].result = ErrRpcMessage("missing result")
              /\ (Null(response.error) /\ ~Null(response.result))
                     => reqs[r].result = OkItem(response.result.v)

\* C23, amended: a response with a success status whose body decodes is
\* classified by its fields: a non-null error gives RpcError::Rpc with the
\* node's message, also when a result is present; a null or absent error
\* with a null or absent result gives RpcError::Rpc("missing result"); only
\* a null or absent error with a result gives that result.  A response with
\* an error status, or with a body that does not decode, gives
\* RpcError::Http whatever its fields are.
C23_ClassifiesDecoded ==
    \A r \in Slots :
        (ReturnedRpc(r) /\ reqs[r].rec.sent)
        => LET response == reqs[r].rec
           IN IF response.status_ok /\ response.decodes
              THEN /\ ~Null(response.error) => reqs[r].result = ErrRpcMessage(response.error.v)
                   /\ (Null(response.error) /\ Null(response.result))
                          => reqs[r].result = ErrRpcMessage("missing result")
                   /\ (Null(response.error) /\ ~Null(response.result))
                          => reqs[r].result = OkItem(response.result.v)
              ELSE reqs[r].result = ErrRpc("Http")

\* one call got an error together with a result and returned the node's
\* message; another got a null error and a null result
C23_Witness ==
    \E r1, r2 \in Slots :
        /\ ReturnedRpc(r1)
        /\ reqs[r1].rec = Response(TRUE, TRUE, TRUE, Json("boom"), Json("ha"))
        /\ reqs[r1].result = ErrRpcMessage("boom")
        /\ ReturnedRpc(r2)
        /\ reqs[r2].rec = Response(TRUE, TRUE, TRUE, JsonNull, JsonNull)
        /\ reqs[r2].result = ErrRpcMessage("missing result")

\* C24: when the node was not reached (no connection, timeout) or answered
\* with an error status, call returns RpcError::Http, never RpcError::Rpc
\* and never a result.
C24_TransportErrors ==
    \A r \in Slots :
        (ReturnedRpc(r) /\ (~reqs[r].rec.sent \/ ~reqs[r].rec.status_ok))
        => /\ reqs[r].result = ErrRpc("Http")
           /\ reqs[r].result.tag /= "Ok"
           /\ reqs[r].result.detail /= "Rpc"

\* one call got no answer, another an error status with a JSON-RPC error in
\* the body; both returned RpcError::Http
C24_Witness ==
    \E r1, r2 \in Slots :
        /\ ReturnedRpc(r1) /\ ~reqs[r1].rec.sent
        /\ reqs[r1].result = ErrRpc("Http")
        /\ ReturnedRpc(r2)
        /\ reqs[r2].rec = Response(TRUE, FALSE, TRUE, Json("boom"), JsonNull)
        /\ reqs[r2].result = ErrRpc("Http")

\* this step is a call of the client taking its request id
TakesId(r) ==
    /\ StepOf(r)
    /\ \/ reqs[r].op = "rpc" /\ reqs[r].pc = "id"
       \/ reqs[r].op = "index" /\ reqs[r].pc \in {"hash", "block"}

\* C25: the counter starts at 1; a call takes the counter's value as its id
\* and leaves the counter one higher, and nothing else moves the counter;
\* the id a call takes is larger than every id taken before it, so no two
\* calls, on the client or on a clone, hold the same id.
C25_RequestIds ==
    /\ next_id = 1
    /\ [][/\ \A r \in Slots :
               TakesId(r) => /\ next_id' = next_id + 1
                             /\ reqs[r].op = "rpc"
                                => /\ reqs'[r].id = next_id
                                   /\ \A r2 \in Slots \ {r} : reqs[r2].id < reqs'[r].id
          /\ next_id' /= next_id => \E r \in Slots : TakesId(r)
          /\ \A r1, r2 \in Slots :
               (r1 /= r2 /\ reqs'[r1].id /= 0) => reqs'[r1].id /= reqs'[r2].id
          /\ \A r \in Slots : reqs'[r].id < next_id']_vars

\* two calls at once, one on the client and one on its clone, hold the ids
\* 1 and 2, neither having sent its request yet
C25_Witness ==
    \E r1, r2 \in Slots :
        /\ reqs[r1].op = "rpc" /\ reqs[r1].pc = "send" /\ reqs[r1].client = "client"
        /\ reqs[r2].op = "rpc" /\ reqs[r2].pc = "send" /\ reqs[r2].client = "clone"
        /\ reqs[r1].id = 1 /\ reqs[r2].id = 2
        /\ next_id = 3

\* C26: a call sends one request: the step that sends it ends the call with
\* what call makes of the answer, whether that is a result, a transport
\* failure, an error status or a protocol error; a returned call has sent
\* exactly one request.
C26_OneRequest ==
    [][\A r \in Slots :
          /\ (StepOf(r) /\ reqs[r].op = "rpc" /\ reqs[r].pc = "id")
                => reqs'[r].pc = "send" /\ reqs'[r].sends = 0
          /\ (StepOf(r) /\ reqs[r].op = "rpc" /\ reqs[r].pc = "send")
                => /\ reqs'[r].pc = "done"
                   /\ reqs'[r].sends = 1
                   /\ reqs'[r].rec \in RpcResponses(Hashes)
                   /\ reqs'[r].result = call(reqs'[r].rec)
          /\ (reqs'[r].op = "rpc" /\ reqs'[r].pc = "done") => reqs'[r].sends = 1]_vars

\* one call has returned a transport failure and another a protocol error,
\* each after one request
C26_Witness ==
    \E r1, r2 \in Slots :
        /\ ReturnedRpc(r1) /\ reqs[r1].result = ErrRpc("Http") /\ reqs[r1].sends = 1
        /\ ~reqs[r1].rec.sent
        /\ ReturnedRpc(r2) /\ reqs[r2].result = ErrRpcMessage("boom") /\ reqs[r2].sends = 1

\* the statuses a job created by sync_from_config can move through
LiveStatuses == {"created", "running", "paused"}

\* C27: from a store whose jobs sync_from_config created, no job is ever in
\* status failed: every stored status is created, running or paused; from
\* these statuses no action has failed (or anything else) as its target and
\* retry is refused; and no retry returns a job.
C27_FailedUnreachable ==
    /\ \A row \in jobs : row.status \in LiveStatuses
    /\ \A action \in Actions, current \in LiveStatuses :
          LET target == transition_target(action, current)
          IN /\ target.ok => target.value \in LiveStatuses
             /\ action = "retry" => ~target.ok
    /\ \A r \in Slots, job_id \in AddressedIds :
          ReturnedAction(r, "retry", job_id) => reqs[r].result.tag /= "Ok"

\* with two jobs in the store, a retry and a start of the same job have both
\* returned, the retry with an error, and no status is failed
C27_Witness ==
    \E r1, r2 \in Slots :
        /\ Cardinality(jobs) = 2
        /\ ReturnedAction(r1, "retry", "watch") /\ reqs[r1].result.tag /= "Ok"
        /\ ReturnedAction(r2, "start", "watch")
        /\ \A row \in jobs : row.status \in LiveStatuses
        /\ calls = 2

(***************************************************************************)
(* persist_block as its statements are meant (indexer/mod.rs 61-121 with   *)
(* the ON CONFLICT clauses of storage/repo.rs): each call runs to its end, *)
(* every statement executed, one block after another in any order.  The   *)
(* program as written does not get this far: the first statement of every  *)
(* persist_block is rejected (C10).                                        *)
(***************************************************************************)
InitOrder ==
    /\ config = << >>
    /\ jobs = {}
    /\ blocks = {}
    /\ transactions = {}
    /\ tx_outputs = {}
    /\ tx_inputs = {}
    /\ reqs = [r \in Slots |-> Idle]
    /\ calls = 0
    /\ faults = 0
    /\ clock = 0
    /\ next_id = 1
    /\ auth = AdminAuth
    /\ probe = [fn |-> "persist_block", order |-> << >>, steps |-> 0]

PersistWhole(block) ==
    /\ probe.fn = "persist_block"
    /\ probe.steps < MaxSteps
    /\ LET after == PersistAll(Store(blocks, transactions, tx_outputs, tx_inputs), block)
       IN /\ blocks' = after.blocks
          /\ transactions' = after.transactions
          /\ tx_outputs' = after.tx_outputs
          /\ tx_inputs' = after.tx_inputs
    /\ probe' = [probe EXCEPT !.order = Append(@, block), !.steps = @ + 1]
    /\ UNCHANGED <<config, jobs, reqs, calls, faults, clock, next_id, auth>>

NextOrder == \E block \in Blocks : PersistWhole(block)

SpecOrder == InitOrder /\ [][NextOrder]_vars

\* the store after the blocks of `order` were persisted one after another
RECURSIVE Replay(_, _)
Replay(order, n) ==
    IF n = 0 THEN Store({}, {}, {}, {})
    ELSE PersistAll(Replay(order, n - 1), order[n])

\* `order` with its last two blocks the other way round
SwapLast(order) ==
    LET n == Len(order)
    IN [k \in 1..n |-> IF k = n - 1 THEN order[n] ELSE IF k = n THEN order[n - 1] ELSE order[k]]

TxIds(block) == {block.tx[t].txid : t \in 1..Len(block.tx)}

\* two blocks that share no block hash and no txid
KeysDisjoint(a, b) == a.hash /= b.hash /\ TxIds(a) \cap TxIds(b) = {}

C29_ListGetSucceed ==
    [][\A r \in Slots :
          /\ (ConnectedStepOf(r) /\ reqs[r].op = "list")
                => /\ reqs'[r].result = OkItems(ListJobs(jobs))
                   /\ Len(reqs'[r].result.items) = Cardinality(jobs)
                   /\ jobs' = jobs
          /\ (ConnectedStepOf(r) /\ reqs[r].op = "get" /\ JobExists(reqs[r].job_id))
                => /\ reqs'[r].result = OkItem(FetchJob(jobs, reqs[r].job_id))
                   /\ jobs' = jobs]_vars

(***************************************************************************)
(* The control API (api/mod.rs): what a handler answers for the Result of  *)
(* the job operation it called.  A response is a status code and a JSON    *)
(* body.                                                                   *)
(***************************************************************************)
\* JobsError::Serialization(serde_json::Error)
ErrSerialization == [tag |-> "Serialization", detail |-> "", item |-> NoItem, items |-> << >>]

\* ApiResponse::new: the status and an ApiError body with empty details
ApiResponseNew(status, code, message) ==
    [status |-> status, body |-> [code |-> code, message |-> message, details |-> << >>]]

\* a slip: an illegal transition answered as a bad request, a failure of
\* the store as an empty success
ApiResponseFrom_wrong_status(err) ==
    CASE err.tag = "NotFound" -> ApiResponseNew(404, "NOT_FOUND", "Not found")
      [] err.tag = "InvalidTransition" ->
            ApiResponseNew(400, "BAD_REQUEST", "Invalid job state transition")
      [] err.tag = "Serialization" ->
            ApiResponseNew(500, "INTERNAL_ERROR", "Serialization failure")
      [] err.tag = "Storage" -> ApiResponseNew(200, "INTERNAL_ERROR", "Storage failure")

\* impl From<JobsError> for ApiResponse
ApiResponseFrom(err) ==
    CASE err.tag = "NotFound" -> ApiResponseNew(404, "NOT_FOUND", "Not found")
      [] err.tag = "InvalidTransition" ->
            ApiResponseNew(409, "CONFLICT", "Invalid job state transition")
      [] err.tag = "Serialization" ->
            ApiResponseNew(500, "INTERNAL_ERROR", "Serialization failure")
      [] err.tag = "Storage" -> ApiResponseNew(500, "INTERNAL_ERROR", "Storage failure")

\* list_jobs: Ok(Json(JobsListResponse { items })), or the error mapped
list_jobs(result) ==
    IF result.tag = "Ok" THEN [status |-> 200, body |-> [items |-> result.items]]
    ELSE ApiResponseFrom(result)

\* get_job, start_job, stop_job, pause_job, resume_job, retry_job:
\* Ok(Json(JobDetailsResponse { item })), or the error mapped
job_details(result) ==
    IF result.tag = "Ok" THEN [status |-> 200, body |-> [item |-> result.item]]
    ELSE ApiResponseFrom(result)

\* what the handler of a route answers for the outcome of its operation
Respond(handler, result) ==
    IF handler = "list_jobs" THEN list_jobs(result) ELSE job_details(result)

(***************************************************************************)
(* The handlers on their own: from any outcome a job operation's Result    *)
(* type has, the response the handler makes of it.                         *)
(***************************************************************************)
Handlers == {"list_jobs", "get_job", "start_job", "stop_job", "pause_job", "resume_job",
             "retry_job"}

\* the rows a jobs table can hold: a configured job in any status
JobRows ==
    {[row EXCEPT !.status = s] :
        row \in UNION {Bootstrap(cfg) : cfg \in Configs}, s \in Statuses}

\* every value of Result<Vec<JobSummary>, JobsError>
ListOutcomes ==
    {OkItems(ListJobs(Bootstrap(cfg))) : cfg \in Configs}
        \cup {ErrNotFound, ErrSerialization}
        \cup {ErrInvalidTransition(s) : s \in StatusStrings}
        \cup {ErrStorage(cause) : cause \in {"Database", "Io"}}

\* every value of Result<JobDetails, JobsError>
ItemOutcomes ==
    {OkItem(row) : row \in JobRows}
        \cup {ErrNotFound, ErrSerialization}
        \cup {ErrInvalidTransition(s) : s \in StatusStrings}
        \cup {ErrStorage(cause) : cause \in {"Database", "Io"}}

OutcomesOf(handler) == IF handler = "list_jobs" THEN ListOutcomes ELSE ItemOutcomes

RespondProbe(handler, outcome, steps) ==
    [fn |-> "respond", handler |-> handler, outcome |-> outcome,
     response |-> Respond(handler, outcome), steps |-> steps]

InitRespond ==
    /\ config = << >>
    /\ jobs = {}
    /\ blocks = {}
    /\ transactions = {}
    /\ tx_outputs = {}
    /\ tx_inputs = {}
    /\ reqs = [r \in Slots |-> Idle]
    /\ calls = 0
    /\ faults = 0
    /\ clock = 0
    /\ next_id = 1
    /\ auth = AdminAuth
    /\ probe \in {RespondProbe(h, o, 0) : h \in {"list_jobs"}, o \in ListOutcomes}
                    \cup {RespondProbe(h, o, 0) : h \in Handlers \ {"list_jobs"}, o \in ItemOutcomes}

ApplyRespond(handler, outcome) ==
    /\ probe.fn = "respond"
    /\ probe.steps < MaxSteps
    /\ outcome \in OutcomesOf(handler)
    /\ probe' = RespondProbe(handler, outcome, probe.steps + 1)
    /\ UNCHANGED <<config, jobs, blocks, transactions, tx_outputs, tx_inputs, reqs, calls, faults, clock, next_id, auth>>

NextRespond ==
    \E handler \in Handlers, outcome \in ListOutcomes \cup ItemOutcomes :
        ApplyRespond(handler, outcome)

SpecRespond == InitRespond /\ [][NextRespond]_vars

\* C31: a handler answers success with 200 and the item (list: the items),
\* NotFound with 404 and code NOT_FOUND, an illegal transition with 409 and
\* code CONFLICT, a storage or serialization failure with 500 and code
\* INTERNAL_ERROR; no failure is answered with a 2xx status.
C31_OutcomeToResponse ==
    probe.fn = "respond"
    => LET o == probe.outcome
           a == probe.response
       IN /\ (o.tag = "Ok" /\ probe.handler = "list_jobs")
                => a = [status |-> 200, body |-> [items |-> o.items]]
          /\ (o.tag = "Ok" /\ probe.handler /= "list_jobs")
                => a = [status |-> 200, body |-> [item |-> o.item]]
          /\ o.tag = "NotFound" => a.status = 404 /\ a.body.code = "NOT_FOUND"
          /\ o.tag = "InvalidTransition" => a.status = 409 /\ a.body.code = "CONFLICT"
          /\ o.tag \in {"Storage", "Serialization"}
                => a.status = 500 /\ a.body.code = "INTERNAL_ERROR"
          /\ o.tag /= "Ok" => a.status \notin 200..299
          /\ o.tag \in {"Ok", "NotFound", "InvalidTransition", "Storage", "Serialization"}

\* pause_job has answered 409 CONFLICT for InvalidTransition("created")
C31_Witness ==
    /\ probe.fn = "respond"
    /\ probe.handler = "pause_job"
    /\ probe.outcome = ErrInvalidTransition("created")
    /\ probe.response.status = 409
    /\ probe.steps > 0

(***************************************************************************)
(* The control API as served (api/mod.rs router): every request passes     *)
(* basic_auth_middleware; a request it lets through runs the handler of    *)
(* its route, which calls the job operation and answers with its outcome.  *)
(***************************************************************************)
\* the byte of a text that is no UTF-8
NotUtf8 == "xFF"

\* the characters of `text` before position i, and from position i on
Before(text, i) == SubSeq(text, 1, i - 1)
From(text, i) == SubSeq(text, i, Len(text))

\* credentials.splitn(2, ':'): the part before the first colon and the rest
\* after it; without a colon the whole text and no second part, which
\* unwrap_or_default reads as the empty string
SplitN2(text) ==
    IF \E i \in 1..Len(text) : text[i] = ":"
    THEN LET i == CHOOSE i \in 1..Len(text) :
                      text[i] = ":" /\ \A j \in 1..(i - 1) : text[j] /= ":"
         IN [username |-> Before(text, i), password |-> From(text, i + 1)]
    ELSE [username |-> text, password |-> << >>]

\* a slip: the credentials split at every colon, the password read as the
\* second part only
is_authorized_split_all(header, configured) ==
    /\ header.present /\ header.ascii /\ header.prefix = "Basic " /\ header.base64
    /\ \A i \in 1..Len(header.bytes) : header.bytes[i] /= NotUtf8
    /\ LET parts == SplitN2(header.bytes)
       IN /\ parts.username = configured.username
          /\ SplitN2(parts.password).username = configured.password

is_authorized(header, configured) ==
    IF ~header.present THEN FALSE
    ELSE IF ~header.ascii THEN FALSE
    ELSE IF header.prefix /= "Basic " THEN FALSE
    ELSE IF ~header.base64 THEN FALSE
    ELSE IF \E i \in 1..Len(header.bytes) : header.bytes[i] = NotUtf8 THEN FALSE
    ELSE LET parts == SplitN2(header.bytes)
         IN parts.username = configured.username /\ parts.password = configured.password

\* unauthorized_response: 401 with an AUTH_FAILED body
unauthorized_response == ApiResponseNew(401, "AUTH_FAILED", "Authentication failed")

\* health: Json(HealthResponse { status: "ok" })
health == [status |-> 200, body |-> [status |-> "ok"]]

\* the job action a handler calls
ActionOf(handler) ==
    CASE handler = "start_job" -> "start"
      [] handler = "stop_job" -> "stop"
      [] handler = "pause_job" -> "pause"
      [] handler = "resume_job" -> "resume"
      [] handler = "retry_job" -> "retry"

\* the routes of the router, for a job id that may be configured and one
\* that is not
Routes ==
    {Route("health", ""), Route("list_jobs", "")}
        \cup {Route(h, id) : h \in Handlers \ {"list_jobs"}, id \in {"watch", "missing"}}

\* the usernames and passwords a deployment may configure: any two strings
Auths ==
    {AdminAuth,
     ApiAuth(<< "a" >>, << >>),
     ApiAuth(<< "a" >>, << "p", ":", "q" >>),
     ApiAuth(<< "a", ":", "b" >>, << "p" >>)}

\* Authorization headers a request may carry
Basic(bytes) == Header(TRUE, TRUE, "Basic ", TRUE, bytes)

Headers ==
    {NoHeader,
     Header(TRUE, FALSE, "Basic ", TRUE, << "a", ":", "p" >>),
     Header(TRUE, TRUE, "Bearer ", TRUE, << "a", ":", "p" >>),
     Header(TRUE, TRUE, "Basic ", FALSE, << >>),
     Basic(<< "a", ":", "p", NotUtf8 >>),
     Basic(<< "a" >>),
     Basic(<< "a", ":" >>),
     Basic(<< "a", ":", "p" >>),
     Basic(<< "a", ":", "x" >>),
     Basic(<< "a", ":", "p", ":", "q" >>),
     Basic(<< "a", ":", "b", ":", "p" >>)}

\* the call of the job operation the handler of `route` makes
OperationOf(route) ==
    CASE route.handler = "list_jobs" -> [Idle EXCEPT !.op = "list", !.pc = "select"]
      [] route.handler = "get_job" ->
            [Idle EXCEPT !.op = "get", !.job_id = route.job_id, !.pc = "select"]
      [] OTHER -> [Idle EXCEPT !.op = "transition", !.action = ActionOf(route.handler),
                               !.job_id = route.job_id, !.pc = "select"]

\* a slip: /health routed outside the layer, answered without credentials
basic_auth_middleware_health_open(header, route) ==
    is_authorized(header, auth) \/ route.handler = "health"

\* basic_auth_middleware: next.run(request) or unauthorized_response()
basic_auth_middleware(header, route) == is_authorized(header, auth)

\* a request arrives: the middleware, then, let through, the handler up to
\* its call of the job operation
ApiRequest(r, route, header) ==
    /\ reqs[r].op = "idle"
    /\ Begin(r, IF ~basic_auth_middleware(header, route)
                THEN [Idle EXCEPT !.op = "api", !.route = route, !.header = header,
                                  !.pc = "responded", !.response = unauthorized_response]
                ELSE IF route.handler = "health"
                THEN [Idle EXCEPT !.op = "api", !.route = route, !.header = header,
                                  !.pc = "responded", !.response = health]
                ELSE [OperationOf(route) EXCEPT !.route = route, !.header = header])

\* the job operation has returned: the handler answers with its outcome
ApiRespond(r) ==
    /\ reqs[r].route /= NoRoute /\ reqs[r].pc = "done"
    /\ reqs' = [reqs EXCEPT ![r].pc = "responded",
                            ![r].response = Respond(reqs[r].route.handler, reqs[r].result)]
    /\ UNCHANGED <<config, jobs, blocks, transactions, tx_outputs, tx_inputs, calls, faults, clock, probe, next_id, auth>>

\* the response is sent
ApiReturn(r) ==
    /\ reqs[r].pc = "responded"
    /\ reqs' = [reqs EXCEPT ![r] = Idle]
    /\ UNCHANGED <<config, jobs, blocks, transactions, tx_outputs, tx_inputs, calls, faults, clock, probe, next_id, auth>>

\* App::bootstrap, then App::run: the store after sync_from_config, the
\* credentials of the configuration
InitApi ==
    /\ config \in Configs
    /\ jobs = Bootstrap(config)
    /\ blocks = {}
    /\ transactions = {}
    /\ tx_outputs = {}
    /\ tx_inputs = {}
    /\ reqs = [r \in Slots |-> Idle]
    /\ calls = 0
    /\ faults = 0
    /\ clock = 0
    /\ next_id = 1
    /\ auth \in Auths
    /\ probe = NoProbe

NextApi ==
    \/ \E r \in Slots, route \in Routes, header \in Headers : ApiRequest(r, route, header)
    \/ \E r \in Slots : ListStep(r)
    \/ \E r \in Slots : GetStep(r)
    \/ \E r \in Slots : TransitionStep(r)
    \/ \E r \in Slots : ApiRespond(r)
    \/ \E r \in Slots : ApiReturn(r)

SpecApi == InitApi /\ [][NextApi]_vars

\* the header carries exactly the configured credentials: Basic and the
\* base64 text of username, colon, password (a header without the colon is
\* read as the username with an empty password)
ExactCredentials(header, configured) ==
    \/ header = Basic(configured.username \o << ":" >> \o configured.password)
    \/ configured.password = << >> /\ header = Basic(configured.username)

\* the request in slot r was answered by the middleware
Rejected(r) == reqs[r].op = "api" /\ reqs[r].response = unauthorized_response

HasColon(text) == \E i \in 1..Len(text) : text[i] = ":"

\* C32: on every route, health too, a request whose Authorization header is
\* absent, unreadable, not Basic, not base64, not UTF-8, or carries other
\* credentials than the configured ones, is answered 401 by the middleware
\* and starts no job operation, so its arrival changes no job row; a
\* request that reaches a handler carries exactly the configured
\* credentials, and one that carries them (the username free of colons) is
\* let through to the operation of its route.
C32_AuthGate ==
    /\ [](\A r \in Slots :
            reqs[r].route /= NoRoute
            => /\ ~ExactCredentials(reqs[r].header, auth)
                     => /\ Rejected(r)
                        /\ reqs[r].pc = "responded"
                        /\ reqs[r].response.status = 401
               /\ Rejected(r) => reqs[r].result = NoResult
               /\ ~Rejected(r) => ExactCredentials(reqs[r].header, auth)
               /\ (ExactCredentials(reqs[r].header, auth) /\ ~HasColon(auth.username))
                     => /\ ~Rejected(r)
                        /\ reqs[r].response.status /= 401
                        /\ reqs[r].route.handler /= "health"
                              => reqs[r].op = OperationOf(reqs[r].route).op)
    /\ [][\A r \in Slots :
            (reqs[r].op = "idle" /\ reqs'[r].route /= NoRoute
                 /\ ~ExactCredentials(reqs'[r].header, auth))
            => /\ jobs' = jobs
               /\ reqs'[r].op = "api"]_vars

\* a start of "watch" with a wrong password was answered 401 and "watch" is
\* still created, while the same route with the configured credentials was
\* let through and its operation has returned
C32_Witness ==
    \E r1, r2 \in Slots :
        /\ auth = AdminAuth
        /\ reqs[r1].route = Route("start_job", "watch")
        /\ reqs[r1].header = Basic(<< "a", ":", "x" >>)
        /\ reqs[r1].response.status = 401
        /\ reqs[r2].route = Route("start_job", "watch")
        /\ reqs[r2].header = Basic(<< "a", ":", "p" >>)
        /\ reqs[r2].op = "transition" /\ reqs[r2].pc = "responded"
        /\ \E row \in jobs : row.job_id = "watch" /\ row.status = "created"

(***************************************************************************)
(* Start of a deployment (app.rs App::bootstrap): AppConfig::load, which   *)
(* validates the raw configuration (config/mod.rs from_raw), then          *)
(* sync_from_config of the accepted jobs on a fresh store, then the API.   *)
(* A failure of either ends the process before anything is served.         *)
(***************************************************************************)
\* RawJobConfig: addresses is an Option
RawJob(job_id, mode, addresses) ==
    [job_id |-> job_id, mode |-> mode, enabled |-> TRUE, addresses |-> addresses]

RawJobs ==
    {RawJob(id, mode, addresses) :
        id \in JobIds,
        mode \in Modes \cup {"utxo_scan"},
        addresses \in {NoList, Some(<< >>), Some(<< "addr1" >>)}}

\* the jobs: list of a configuration file, up to two entries
RawJobLists ==
    {<< >>} \cup {<< a >> : a \in RawJobs} \cup {<< a, b >> : a \in RawJobs, b \in RawJobs}

\* what from_raw checks before it looks at the jobs, as the first of them
\* that fails: the TLS and mTLS files, the password variables, reorg_depth,
\* network
Preambles == {"ok", "file", "password_env", "reorg_depth", "network"}

Validation(message) == [ok |-> FALSE, error |-> "Validation", message |-> message, jobs |-> << >>]
Loaded(accepted) == [ok |-> TRUE, error |-> "", message |-> "", jobs |-> accepted]
NotLoaded == [ok |-> FALSE, error |-> "", message |-> "", jobs |-> << >>]

\* job.addresses.unwrap_or_default()
UnwrapOrDefault(option) == IF option.some THEN option.v ELSE << >>

\* a slip: the mode of a job taken as it is written
ValidateJobs_any_mode(raw, k, seen, accepted) ==
    IF k > Len(raw) THEN Loaded(accepted)
    ELSE Loaded([i \in 1..Len(raw) |->
                    [job_id |-> raw[i].job_id, mode |-> raw[i].mode, enabled |-> raw[i].enabled,
                     addresses |-> UnwrapOrDefault(raw[i].addresses)]])

\* the loop of from_raw over raw.jobs from the k-th entry on: seen_job_ids,
\* the jobs pushed so far; the first entry that fails a check returns
RECURSIVE ValidateJobs(_, _, _, _)
ValidateJobs(raw, k, seen, accepted) ==
    IF k > Len(raw) THEN Loaded(accepted)
    ELSE LET job == raw[k]
             addresses == UnwrapOrDefault(job.addresses)
         IN IF job.job_id \in seen THEN Validation("jobs[*].job_id MUST be unique")
            ELSE IF job.mode \notin {"all_addresses", "address_list"}
            THEN Validation("jobs[*].mode has unsupported value")
            ELSE IF job.mode = "address_list" /\ Len(addresses) = 0
            THEN Validation("jobs[job_id].addresses MUST be non-empty for address_list mode")
            ELSE ValidateJobs(raw, k + 1, seen \cup {job.job_id},
                              Append(accepted,
                                     [job_id |-> job.job_id, mode |-> job.mode,
                                      enabled |-> job.enabled, addresses |-> addresses]))

\* AppConfig::from_raw
from_raw(preamble, raw) ==
    IF preamble /= "ok" THEN Validation(preamble)
    ELSE ValidateJobs(raw, 1, {}, << >>)

BootProbe(preamble, raw, loaded, phase) ==
    [fn |-> "bootstrap", preamble |-> preamble, raw |-> raw, loaded |-> loaded,
     phase |-> phase, synced |-> 0]

InitBoot ==
    /\ config = << >>
    /\ jobs = {}
    /\ blocks = {}
    /\ transactions = {}
    /\ tx_outputs = {}
    /\ tx_inputs = {}
    /\ reqs = [r \in Slots |-> Idle]
    /\ calls = 0
    /\ faults = 0
    /\ clock = 0
    /\ next_id = 1
    /\ auth = AdminAuth
    /\ probe \in {BootProbe(preamble, raw, NotLoaded, "start") :
                     preamble \in Preambles, raw \in RawJobLists}

\* AppConfig::load()?
BootLoad ==
    /\ probe.fn = "bootstrap" /\ probe.phase = "start"
    /\ LET loaded == from_raw(probe.preamble, probe.raw)
       IN /\ probe' = [probe EXCEPT !.loaded = loaded,
                                    !.phase = IF loaded.ok THEN "loaded" ELSE "exited"]
          /\ config' = loaded.jobs
    /\ UNCHANGED <<jobs, blocks, transactions, tx_outputs, tx_inputs, reqs, calls, faults, clock, next_id, auth>>

\* Storage::connect, apply_migrations, sync_from_config(&config.jobs)?: all
\* upserts, or the upserts before the statement the connection fails under
BootSync ==
    /\ probe.fn = "bootstrap" /\ probe.phase = "loaded"
    /\ \E done \in 0..Len(config) :
         /\ done < Len(config) => faults < MaxFaults
         /\ jobs' = SyncAll(jobs, SubSeq(config, 1, done), 1, clock)
         /\ faults' = IF done < Len(config) THEN faults + 1 ELSE faults
         /\ probe' = [probe EXCEPT !.phase = IF done < Len(config) THEN "exited" ELSE "serving",
                                   !.synced = done]
    /\ UNCHANGED <<config, blocks, transactions, tx_outputs, tx_inputs, reqs, calls, clock, next_id, auth>>

Serving == probe.fn = "bootstrap" /\ probe.phase = "serving"

NextBoot ==
    \/ BootLoad
    \/ BootSync
    \/ Serving /\ \E r \in Slots, a \in Actions, id \in JobIds : CallTransition(r, a, id)
    \/ Serving /\ \E r \in Slots : TransitionStep(r)
    \/ Serving /\ \E r \in Slots : Return(r)
    \/ Serving /\ Tick

SpecBoot == InitBoot /\ [][NextBoot]_vars

\* the faults C33 names in a jobs: list
Repeated(raw) == \E i, j \in 1..Len(raw) : i < j /\ raw[i].job_id = raw[j].job_id
Unsupported(raw) == \E i \in 1..Len(raw) : raw[i].mode \notin Modes
NoAddresses(raw) ==
    \E i \in 1..Len(raw) :
        raw[i].mode = "address_list" /\ raw[i].addresses \in {NoList, Some(<< >>)}

\* C33: every job row has a mode of the two modes and a status of the four
\* statuses; a configuration with a job_id twice, an unsupported mode or an
\* address_list job without addresses is rejected with a Validation error
\* and the process ends without a sync_from_config: no job row is written;
\* a configuration without these faults (and with a sound preamble) is
\* accepted with its jobs as written.
C33_AcceptedJobs ==
    /\ \A row \in jobs : row.mode \in Modes /\ row.status \in Statuses
    /\ (probe.fn = "bootstrap" /\ probe.phase /= "start")
          => /\ (Repeated(probe.raw) \/ Unsupported(probe.raw) \/ NoAddresses(probe.raw))
                   => /\ ~probe.loaded.ok /\ probe.loaded.error = "Validation"
                      /\ probe.phase = "exited"
                      /\ probe.synced = 0 /\ jobs = {} /\ config = << >>
             /\ (probe.preamble = "ok"
                     /\ ~(Repeated(probe.raw) \/ Unsupported(probe.raw) \/ NoAddresses(probe.raw)))
                   => /\ probe.loaded.ok
                      /\ Len(config) = Len(probe.raw)
                      /\ \A i \in 1..Len(config) :
                            /\ config[i].job_id = probe.raw[i].job_id
                            /\ config[i].mode = probe.raw[i].mode
             /\ \A row \in jobs : \E i \in 1..Len(config) : config[i].job_id = row.job_id

\* a configuration with "watch" twice was rejected and the process has
\* ended with an empty jobs table
C33_RejectedWitness ==
    /\ probe.fn = "bootstrap"
    /\ probe.raw = << RawJob("watch", "address_list", Some(<< "addr1" >>)),
                      RawJob("watch", "all_addresses", NoList) >>
    /\ probe.phase = "exited"
    /\ probe.loaded = Validation("jobs[*].job_id MUST be unique")
    /\ jobs = {}

\* an accepted configuration of two jobs is served, an action on one of them
\* has returned, and both rows have a mode and a status of the sets
C33_Witness ==
    /\ Serving
    /\ Cardinality(jobs) = 2
    /\ \E row \in jobs : row.mode = "address_list"
    /\ \E r \in Slots : reqs[r].op = "transition" /\ reqs[r].pc = "done"
    /\ \A row \in jobs : row.mode \in Modes /\ row.status \in Statuses

\* C35: in a store that only persist_block writes, in every state, during
\* a persist and after one that was cut off too, every tx_outputs row and
\* every tx_inputs row has a transactions row with its txid, and every
\* transactions row has a blocks row with its block_hash.
C35_RowsHaveParents ==
    /\ \A row \in tx_outputs : \E t \in transactions : t.txid = row.txid
    /\ \A row \in tx_inputs : \E t \in transactions : t.txid = row.txid
    /\ \A t \in transactions : \E b \in blocks : b.hash = t.block_hash

\* a persist_block of the block of t1 and t2 was cut off by a storage error
\* while another persist_block is under way, and no output or input row is
\* in the store without its transaction row
C35_Witness ==
    \E r1, r2 \in Slots :
        /\ reqs[r1].op = "persist" /\ reqs[r1].pc = "done" /\ reqs[r1].block = BlockA
        /\ reqs[r1].result.tag = "Storage"
        /\ reqs[r2].op = "persist" /\ reqs[r2].pc = "write"
        /\ \A w \in SeqToSet(Writes(BlockA)) : w.kind = "output" => w.rec \notin tx_outputs
        /\ tx_outputs = {} /\ tx_inputs = {} /\ transactions = {}

\* C36: when two persist_block calls of the same block have both returned,
\* on a connection that never failed, both returned Ok and the store is the
\* one a single persist_block of the block leaves on the empty store.
C36_ConcurrentPersist ==
    \A r1, r2 \in Slots, block \in Blocks :
        (r1 /= r2 /\ ReturnedPersist(r1, block) /\ ReturnedPersist(r2, block) /\ faults = 0)
        => /\ reqs[r1].result = OkUnit
           /\ reqs[r2].result = OkUnit
           /\ Store(blocks, transactions, tx_outputs, tx_inputs)
                 = PersistAll(Store({}, {}, {}, {}), block)

\* C37: when a sync_from_config that names a job and a start of that job
\* (stored as created) have both returned, on a connection that never
\* failed, the job's row has status running, written by the start, and the
\* mode and the snapshot the sync wrote.
C37_NoLostUpdate ==
    \A r1, r2 \in Slots, id \in JobIds :
        (/\ reqs[r1].op = "sync" /\ reqs[r1].pc = "done"
         /\ \E k \in 1..Len(reqs[r1].cfg) : reqs[r1].cfg[k].job_id = id
         /\ ReturnedAction(r2, "start", id)
         /\ JobExists(id)
         /\ faults = 0)
        => LET row == FetchJob(jobs, id)
               job == CHOOSE j \in SeqToSet(reqs[r1].cfg) : j.job_id = id
           IN /\ reqs[r2].result.tag = "Ok"
              /\ row.status = "running"
              /\ row.mode = job.mode
              /\ row.config_snapshot = Snapshot(job)

\* the row of job_id keeps its progress_height and its last_error over the step
KeepsProgress(job_id) ==
    \A row \in jobs :
        row.job_id = job_id
        => \E after \in jobs' :
              /\ after.job_id = job_id
              /\ after.progress_height = row.progress_height
              /\ after.last_error = row.last_error

\* C38: no step of sync_from_config or of a job action changes the
\* progress_height or the last_error of a row, and a row that a step
\* creates has progress_height 0 and last_error null; so in a deployment
\* started on a fresh store every row has progress_height 0 and last_error
\* null in every state, whatever was called.
C38_NoProgress ==
    /\ [](\A row \in jobs : row.progress_height = 0 /\ row.last_error = NULL)
    /\ [][/\ \A row \in jobs : KeepsProgress(row.job_id)
          /\ \A after \in jobs' :
                (\A row \in jobs : row.job_id /= after.job_id)
                => after.progress_height = 0 /\ after.last_error = NULL]_vars

\* a sync_from_config that created "watch" and a start of "watch" have both
\* returned, and the row has progress_height 0 and no last_error
C38_Witness ==
    \E r1, r2 \in Slots :
        /\ \A k \in 1..Len(config) : config[k].job_id /= "watch"
        /\ reqs[r1].op = "sync" /\ reqs[r1].pc = "done" /\ reqs[r1].result = OkUnit
        /\ ReturnedAction(r2, "start", "watch")
        /\ \E row \in jobs :
              row.job_id = "watch" /\ row.progress_height = 0 /\ row.last_error = NULL

(***************************************************************************)
(* persist_block under the condition that every storage call returns: a    *)
(* call that has a statement to send does send it and gets its answer.     *)
(* Without the condition the call may stay at a statement for ever: there  *)
(* is no timeout around persist_block.                                     *)
(***************************************************************************)
NextPersist ==
    \/ \E r \in Slots, b \in Blocks : CallPersist(r, b)
    \/ \E r \in Slots : PersistStep(r)
    \/ \E r \in Slots : Return(r)
    \/ Tick

SpecPersist == Init /\ [][NextPersist]_vars /\ \A r \in Slots : WF_vars(PersistStep(r))

\* the inputs and the outputs of the transactions of a block from the t-th on
RECURSIVE CountInputs(_, _)
CountInputs(block, t) ==
    IF t > Len(block.tx) THEN 0 ELSE Len(block.tx[t].vin) + CountInputs(block, t + 1)

RECURSIVE CountOutputs(_, _)
CountOutputs(block, t) ==
    IF t > Len(block.tx) THEN 0 ELSE Len(block.tx[t].vout) + CountOutputs(block, t + 1)

\* 1 + transactions + inputs + outputs
WriteBound(block) == 1 + Len(block.tx) + CountInputs(block, 1) + CountOutputs(block, 1)

\* C39: a persist_block whose storage calls all return does return, with Ok
\* or with the error of the first storage call that failed, having sent at
\* most 1 + transactions + inputs + outputs writes; and it returns by the
\* return of a storage call only, so a storage call that never returns
\* keeps it from returning.
C39_PersistReturns ==
    /\ \A r \in Slots :
          (reqs[r].op = "persist" /\ reqs[r].pc = "write")
             ~> (reqs[r].op = "persist" /\ reqs[r].pc = "done"
                    /\ reqs[r].result.tag \in {"Ok", "Storage"})
    /\ [](\A r \in Slots :
            reqs[r].op = "persist"
            => /\ reqs[r].k <= Len(Writes(reqs[r].block))
               /\ Len(Writes(reqs[r].block)) <= WriteBound(reqs[r].block))
    /\ [][\A r \in Slots :
            (reqs[r].op = "persist" /\ reqs[r].pc = "write" /\ reqs'[r].pc /= "write")
            => /\ PersistStep(r)
               /\ reqs'[r].pc = "done"
               /\ reqs'[r].result = OkUnit
                     => reqs[r].k = Len(Writes(reqs[r].block))]_vars

\* a persist_block of the block of t1 and t2 has returned after one write,
\* with the error of that write
C39_Witness ==
    \E r \in Slots :
        /\ reqs[r].op = "persist" /\ reqs[r].pc = "done" /\ reqs[r].block = BlockA
        /\ reqs[r].result = ErrStorage("Database")
        /\ reqs[r].k = 1
        /\ WriteBound(BlockA) > 1

====
